---------------------------- MODULE Spec2Model ----------------------------
(***************************************************************************)
(* Model of the conversational incident-resolution state machine of the   *)
(* IT helpdesk chatbot (services/incident_service.py and the collaborators *)
(* it calls: db/mongo.py, services/llm_service.py, services/kb_service.py, *)
(* utils/preprocessing.py).                                                *)
(*                                                                         *)
(* Text is modelled as TLA+ strings and the keyword heuristics are         *)
(* computed character by character, as Python's `in`, lower(), strip(),    *)
(* split() and re.search(r'INC\d+') compute them.                          *)
(***************************************************************************)
EXTENDS Integers, Sequences, FiniteSets, TLC

(***************************************************************************)
(* Python string primitives                                                *)
(***************************************************************************)

\* Python `p in s` for strings: p occurs in s as a contiguous substring.
Contains(s, p) ==
  \E i \in 1..(Len(s) - Len(p) + 1) : SubSeq(s, i, i + Len(p) - 1) = p

\* any(p in s for p in ps)
ContainsAny(s, ps) == \E p \in ps : Contains(s, p)

UpperChars == "ABCDEFGHIJKLMNOPQRSTUVWXYZ"
LowerChars == "abcdefghijklmnopqrstuvwxyz"
DigitChars == "0123456789"

CharAt(s, i) == SubSeq(s, i, i)

IsUpper(c) == \E i \in 1..Len(UpperChars) : CharAt(UpperChars, i) = c
IsDigit(c) == \E i \in 1..Len(DigitChars) : CharAt(DigitChars, i) = c

LowerChar(c) ==
  IF IsUpper(c)
  THEN CharAt(LowerChars, CHOOSE i \in 1..Len(UpperChars) : CharAt(UpperChars, i) = c)
  ELSE c

\* str.lower()
RECURSIVE Lower(_)
Lower(s) ==
  IF Len(s) = 0 THEN ""
  ELSE LowerChar(CharAt(s, 1)) \o Lower(SubSeq(s, 2, Len(s)))

\* str.strip(): leading and trailing blanks removed
RECURSIVE LStrip(_)
LStrip(s) ==
  IF Len(s) > 0 /\ CharAt(s, 1) = " " THEN LStrip(SubSeq(s, 2, Len(s))) ELSE s

RECURSIVE RStrip(_)
RStrip(s) ==
  IF Len(s) > 0 /\ CharAt(s, Len(s)) = " " THEN RStrip(SubSeq(s, 1, Len(s) - 1)) ELSE s

Strip(s) == RStrip(LStrip(s))

\* the positions at which a word of s starts / ends (a word is a maximal run
\* of non-blank characters, as str.split() cuts them)
WordStarts(s) ==
  {i \in 1..Len(s) : CharAt(s, i) # " " /\ (i = 1 \/ CharAt(s, i - 1) = " ")}

WordEnd(s, i) ==
  CHOOSE j \in i..Len(s) :
    /\ \A k \in i..j : CharAt(s, k) # " "
    /\ (j = Len(s) \/ CharAt(s, j + 1) = " ")

\* len(s.split())
WordCount(s) == Cardinality(WordStarts(s))

\* set(s.split())
Words(s) == {SubSeq(s, i, WordEnd(s, i)) : i \in WordStarts(s)}

\* s.split(',') : the pieces between commas, a single "" for the empty string
RECURSIVE SplitComma(_)
SplitComma(s) ==
  IF \E i \in 1..Len(s) : CharAt(s, i) = ","
  THEN LET i == CHOOSE k \in 1..Len(s) :
                  CharAt(s, k) = "," /\ \A j \in 1..(k - 1) : CharAt(s, j) # ","
       IN  <<SubSeq(s, 1, i - 1)>> \o SplitComma(SubSeq(s, i + 1, Len(s)))
  ELSE <<s>>

\* ','.join(seq)
RECURSIVE JoinComma(_)
JoinComma(seq) ==
  IF seq = <<>> THEN ""
  ELSE IF Len(seq) = 1 THEN seq[1]
  ELSE seq[1] \o "," \o JoinComma(Tail(seq))

\* int(s) for a string of decimal digits
IsNumber(s) == Len(s) > 0 /\ \A i \in 1..Len(s) : IsDigit(CharAt(s, i))

DigitValue(c) == (CHOOSE i \in 1..Len(DigitChars) : CharAt(DigitChars, i) = c) - 1

RECURSIVE ParseInt(_)
ParseInt(s) ==
  IF Len(s) = 0 THEN 0
  ELSE 10 * ParseInt(SubSeq(s, 1, Len(s) - 1)) + DigitValue(CharAt(s, Len(s)))

NULL == "<None>"

\* re.search(r'INC\d+', s): the leftmost "INC" followed by a digit, with all
\* the digits that follow it; NULL when there is none
IncMatchStarts(s) ==
  {i \in 1..(Len(s) - 3) : SubSeq(s, i, i + 2) = "INC" /\ IsDigit(CharAt(s, i + 3))}

DigitsEnd(s, i) ==
  CHOOSE j \in i..Len(s) :
    /\ \A k \in i..j : IsDigit(CharAt(s, k))
    /\ (j = Len(s) \/ ~IsDigit(CharAt(s, j + 1)))

SearchIncidentId(s) ==
  IF IncMatchStarts(s) = {} THEN NULL
  ELSE LET i == CHOOSE k \in IncMatchStarts(s) : \A m \in IncMatchStarts(s) : k <= m
       IN  SubSeq(s, i, DigitsEnd(s, i + 3))

(***************************************************************************)
(* Data: the texts users type, the KB content and the analysis outcomes    *)
(***************************************************************************)

\* user utterances
UHi        == "hi"
UOutlook   == "outlook is not opening"
UVpn       == "VPN is not connecting at all"
UNoError   == "no error"
UNothing   == "nothing"
UNoMessage == "no message"
UNone      == "none"
UIgnore    == "ignore"
UKeep      == "keep"
UClose     == "close incident"
UClear     == "clear session"
UCreate    == "create a incident"
UWindows   == "windows 10"
ULong      == "sorry what exactly should be typed in here"
UInc1      == "INC1"
UInc2      == "INC2"
UInc9      == "INC9"

\* the literal the incident-selection handler feeds to field collection
DummyContinue == "continue"

AllUtterances ==
  {UHi, UOutlook, UVpn, UNoError, UNothing, UNoMessage, UNone, UIgnore, UKeep,
   UClose, UClear, UCreate, UWindows, ULong, UInc1, UInc2, UInc9}

\* every text that can reach the heuristics: what a user typed, or "continue"
AllTexts == AllUtterances \cup {DummyContinue}

\* field names of required_info lists
FErrorMessage == "Error Message"
FOs           == "Operating System"
FDevice       == "Device Name"
FAccount      == "Account Type"

AllFields == {FErrorMessage, FOs, FDevice, FAccount, ""}

\* KB content as the vector store keeps it: required_info and questions are
\* comma-joined strings in the entry's metadata
KBInit ==
  [k \in {"KB_001", "KB_002"} |->
     IF k = "KB_001"
     THEN [use_case       |-> "Outlook Not Opening",
           required_info  |-> "Operating System,Error Message",
           questions      |-> "Can you please provide: Operating System?,Can you please provide: Error Message?",
           solution_steps |-> "Check Outlook version and apply latest updates."]
     ELSE [use_case       |-> "VPN Not Connecting",
           required_info  |-> "Error Message",
           questions      |-> "Can you please provide: Error Message?",
           solution_steps |-> "Restart the VPN client."]]

\* what the technical-issue analysis (an LLM call returning JSON) can answer
AnNotTechnical == [is_technical_issue |-> FALSE, required_info |-> <<>>, clarifying_questions |-> <<>>]
AnNoFields     == [is_technical_issue |-> TRUE, required_info |-> <<>>, clarifying_questions |-> <<>>]
AnDevice       == [is_technical_issue |-> TRUE, required_info |-> <<FDevice>>,
                   clarifying_questions |-> <<"Which device is affected?">>]
AnTwo          == [is_technical_issue |-> TRUE, required_info |-> <<FDevice, FAccount>>,
                   clarifying_questions |-> <<"Which device is affected?">>]
AnRepeated     == [is_technical_issue |-> TRUE, required_info |-> <<FDevice, FDevice>>,
                   clarifying_questions |-> <<>>]

\* the dict analyze_technical_issue returns when the model call failed or its
\* text holds no JSON object
AnFailed == [is_technical_issue |-> FALSE]

AllAnalyses == {AnNotTechnical, AnNoFields, AnDevice, AnTwo, AnRepeated, AnFailed}

(***************************************************************************)
(* State                                                                   *)
(***************************************************************************)

VARIABLES
  sessions,    \* Session Store: session_id -> session document
  incidents,   \* Incident Store: incident_id -> incident document
  kb,          \* KB vector store: kb_id -> metadata
  clock,       \* the wall clock's second when it was last read
  oids,        \* number of documents inserted so far (source of Mongo's _id)
  turns,       \* number of requests served so far
  result,      \* what the last operation returned to its caller
  trace        \* which steps of the dispatch ladder the last turn went through

vars == <<sessions, incidents, kb, clock, oids, turns, result, trace>>

\* ---- bounds of the model ----
MaxTurns     == 3
CollectTurns == 4
SlotTurns    == 4
ContextTurns == 6
MaxSessions  == 1
MaxClock     == 2
PairTurns    == 3
PairSessions == 2
ClearTurns   == 4
FailTurns    == 3
ApproveTurns == 5
ResumeTurns  == 5
SelectTurns  == 5
PreviousTurns == 5
OrphanTurns  == 5
MenuTurns    == 3
BareTurns    == 4

\* ---- program constants ----
ContextCap == 10

(***************************************************************************)
(* Documents and the two stores (db/mongo.py)                              *)
(***************************************************************************)

Msg(role, content) == [role |-> role, content |-> content]

\* a dict: a function whose domain is its key set
EmptyDict == <<>>
DictPut(d, k, v) == [x \in (DOMAIN d) \cup {k} |-> IF x = k THEN v ELSE d[x]]
DictDel(d, k) == [x \in (DOMAIN d) \ {k} |-> d[x]]

\* {"$set": update_data}: the named fields are overwritten, the others kept
Patch(doc, p) == [f \in DOMAIN doc \cup DOMAIN p |-> IF f \in DOMAIN p THEN p[f] ELSE doc[f]]

\* the two collections, as the value the handlers thread through a request,
\* and the second the wall clock shows while the request is served
Db(s, i, o, now) == [sessions |-> s, incidents |-> i, oids |-> o, now |-> now]

MongoGetSession(db, sid) ==
  IF sid \in DOMAIN db.sessions THEN db.sessions[sid] ELSE NULL

MongoUpdateSession(db, sid, p) ==
  IF sid \in DOMAIN db.sessions
  THEN [db EXCEPT !.sessions[sid] = Patch(@, p)]
  ELSE db

MongoCreateSession(db, sid, doc) ==
  IF sid \in DOMAIN db.sessions THEN db
  ELSE [db EXCEPT !.sessions = DictPut(@, sid, doc)]

\* insert_one under the unique index on incident_id: a duplicate id raises
\* DuplicateKeyError, which create_incident swallows (it returns False)
MongoCreateIncident(db, doc) ==
  IF doc.incident_id \in DOMAIN db.incidents THEN db
  ELSE [db EXCEPT !.incidents = DictPut(@, doc.incident_id, [doc EXCEPT !.oid = db.oids + 1]),
                  !.oids = @ + 1]

HasIncident(db, id) == id \in DOMAIN db.incidents

\* update_data[key] = datetime.utcnow(): the document of a $set with one
\* more key, stamped with the second the clock shows
Stamped(update_data, key, now) ==
  [f \in DOMAIN update_data \cup {key} |-> IF f = key THEN now ELSE update_data[f]]

MongoUpdateIncident(db, id, p) ==
  IF id \in DOMAIN db.incidents
  THEN [db EXCEPT !.incidents[id] = Patch(@, p)]
  ELSE db

MongoDeleteIncident(db, id) ==
  [db EXCEPT !.incidents = DictDel(@, id)]

(***************************************************************************)
(* Session bookkeeping of IncidentService                                  *)
(***************************************************************************)

NewSessionDoc ==
  [active_incidents           |-> <<>>,
   conversation_context       |-> <<>>,
   awaiting_response          |-> NULL,
   pending_new_incident_query |-> NULL]

\* uuid.uuid4(): an id no session has yet
FreshSessionId(db) == "S" \o ToString(Cardinality(DOMAIN db.sessions) + 1)

\* a cut that keeps the first entries
LastTenBroken(seq) ==
  IF Len(seq) > ContextCap THEN SubSeq(seq, 1, ContextCap) ELSE seq

\* conversation_context[-10:]
LastTen(seq) ==
  IF Len(seq) > ContextCap THEN SubSeq(seq, Len(seq) - ContextCap + 1, Len(seq)) ELSE seq

\* update_session_context: append the user entry and the assistant entry,
\* keep the last 10
UpdateSessionContext(db, sid, user_input, assistant_response) ==
  IF sid \in DOMAIN db.sessions
  THEN LET ctx == db.sessions[sid].conversation_context
                    \o <<Msg("user", user_input), Msg("assistant", assistant_response)>>
       IN  MongoUpdateSession(db, sid, [conversation_context |-> LastTen(ctx)])
  ELSE db

InSeq(x, seq) == \E i \in 1..Len(seq) : seq[i] = x

\* list.remove(x): the first occurrence of x is removed
RemoveFirst(seq, x) ==
  IF InSeq(x, seq)
  THEN LET i == CHOOSE k \in 1..Len(seq) : seq[k] = x /\ \A j \in 1..(k - 1) : seq[j] # x
       IN  SubSeq(seq, 1, i - 1) \o SubSeq(seq, i + 1, Len(seq))
  ELSE seq

AddIncidentToSession(db, sid, incident_id) ==
  IF sid \in DOMAIN db.sessions /\ ~InSeq(incident_id, db.sessions[sid].active_incidents)
  THEN MongoUpdateSession(db, sid,
         [active_incidents |-> Append(db.sessions[sid].active_incidents, incident_id)])
  ELSE db

RemoveIncidentFromSession(db, sid, incident_id) ==
  IF sid \in DOMAIN db.sessions /\ InSeq(incident_id, db.sessions[sid].active_incidents)
  THEN MongoUpdateSession(db, sid,
         [active_incidents |-> RemoveFirst(db.sessions[sid].active_incidents, incident_id)])
  ELSE db

ClearSession(db, sid) ==
  MongoUpdateSession(db, sid,
    [conversation_context |-> <<>>, active_incidents |-> <<>>, awaiting_response |-> NULL])

\* generate_incident_id: "INC" and the clock's second
GenerateIncidentId(db) == "INC" \o ToString(db.now)

\* _get_pending_incidents: the active incidents that exist and are pending_info
RECURSIVE GetPendingIncidents(_, _)
GetPendingIncidents(db, ids) ==
  IF ids = <<>> THEN <<>>
  ELSE LET rest == GetPendingIncidents(db, Tail(ids))
       IN  IF HasIncident(db, Head(ids)) /\ db.incidents[Head(ids)].status = "pending_info"
           THEN <<db.incidents[Head(ids)]>> \o rest
           ELSE rest

\* the content of the last assistant entry of a transcript, "" if there is none
LastAssistant(conv) ==
  IF \E i \in 1..Len(conv) : conv[i].role = "assistant"
  THEN conv[CHOOSE i \in 1..Len(conv) :
              conv[i].role = "assistant" /\ \A j \in (i + 1)..Len(conv) : conv[j].role # "assistant"].content
  ELSE ""

(***************************************************************************)
(* Heuristic text classifiers                                              *)
(***************************************************************************)

NegativeErrorResponses ==
  {"no error", "no errors", "none", "nothing", "not seeing", "don't see",
   "no error message", "no message"}

NewIssuePatterns ==
  {"not opening", "not working", "not connecting", "cannot access", "failed",
   "broken", "error", "issue with", "problem with", "trouble with",
   "outlook", "email", "vpn", "network", "wifi", "software", "hardware",
   "install", "password", "login", "access", "connection", "performance",
   "slow", "crash", "freeze", "hang", "unresponsive"}

\* _is_clearly_new_issue_description, on the incident's user_demand and on
\* the field at missing_info[0] ("" when missing_info is empty)
IsNotAnswer(user_lower, current_field) ==
  LET field_lower == Lower(current_field) IN
  IF current_field = "" THEN TRUE
  ELSE IF ContainsAny(field_lower, {"operating system", "os"})
       THEN ~ContainsAny(user_lower, {"windows", "mac", "linux", "macos"})
  ELSE IF Contains(field_lower, "vpn client")
       THEN ~ContainsAny(user_lower, {"cisco", "anyconnect", "globalprotect"})
  ELSE IF Contains(field_lower, "error message") \/ Contains(field_lower, "error code")
       THEN ~ContainsAny(user_lower, {"error", "code", "message", "no", "none"})
  ELSE IF Contains(field_lower, "account type")
       THEN ~ContainsAny(user_lower, {"office365", "exchange", "gmail"})
  ELSE TRUE

IsDifferentIssue(user_lower, current_issue) ==
  IF current_issue = "" THEN TRUE
  ELSE ~(Cardinality(Words(current_issue) \cap Words(user_lower)) > 2)

IsClearlyNewIssueDescription(user_input, user_demand, current_field) ==
  LET user_lower    == Lower(Strip(user_input))
      current_issue == Lower(user_demand)
  IN  IF ContainsAny(user_lower, NegativeErrorResponses) THEN FALSE
      ELSE /\ ContainsAny(user_lower, NewIssuePatterns)
           /\ IsNotAnswer(user_lower, current_field)
           /\ IsDifferentIssue(user_lower, current_issue)

\* _is_likely_answer_to_current_question, from the point where the current
\* incident is known to be pending_info with a non-empty missing_info
LikelyAnswerToField(user_input, first_missing) ==
  LET current_field == Lower(first_missing)
      user_lower    == Lower(Strip(user_input))
  IN  IF Contains(current_field, "operating system") \/ Contains(current_field, "os")
      THEN ContainsAny(user_lower, {"windows", "mac", "linux", "macos", "ubuntu"})
      ELSE IF Contains(current_field, "vpn client")
      THEN ContainsAny(user_lower, {"cisco", "anyconnect", "globalprotect", "forticlient"})
      ELSE IF Contains(current_field, "error message") \/ Contains(current_field, "error code")
      THEN \/ Contains(user_lower, "error")
           \/ ContainsAny(user_lower, {"no error", "none", "nothing", "not seeing", "don't see"})
      ELSE IF Contains(current_field, "account type")
      THEN ContainsAny(user_lower, {"office365", "exchange", "gmail", "outlook"})
      ELSE IF Contains(current_field, "network type")
      THEN ContainsAny(user_lower, {"home", "office", "wifi", "ethernet"})
      ELSE WordCount(user_input) <= 5 /\ Len(user_input) > 1

ShortcutCommands ==
  {"create incident", "track incident", "new incident", "close incident",
   "clear session", "view incomplete", "view previous", "hello", "hi", "hey",
   "good morning"}

\* not_command of the likely-answer shortcut
NotCommand(user_input) == ~ContainsAny(Lower(Strip(user_input)), ShortcutCommands)

NoErrorPhrases ==
  {"no error", "no errors", "none", "nothing", "not seeing", "don't see",
   "no message", "no code", "nope", "doesn't show", "didnt see"}

\* the value _continue_incident extracts from the utterance for the field it
\* is asking about; NULL when the utterance is not accepted (is_valid false,
\* or an extracted value that is empty)
Truthy(v) == IF v = "" THEN NULL ELSE v

ExtractValue(user_input, current_field) ==
  LET user_lower  == Lower(Strip(user_input))
      field_lower == Lower(current_field)
      stripped    == Truthy(Strip(user_input))
  IN  IF current_field = "" THEN NULL
      ELSE IF Contains(field_lower, "error")
              /\ (Contains(field_lower, "message") \/ Contains(field_lower, "code"))
      THEN IF ContainsAny(user_lower, NoErrorPhrases) THEN "No error message"
           ELSE IF Len(user_input) > 5 THEN stripped ELSE NULL
      ELSE IF Contains(field_lower, "operating system") \/ Contains(field_lower, "os")
      THEN IF ContainsAny(user_lower, {"windows", "mac", "linux", "macos", "ubuntu", "ios", "android"})
           THEN stripped ELSE NULL
      ELSE IF Contains(field_lower, "vpn") /\ Contains(field_lower, "client")
      THEN IF ContainsAny(user_lower, {"cisco", "anyconnect", "globalprotect", "forticlient", "pulse"})
           THEN stripped ELSE NULL
      ELSE IF Contains(field_lower, "network")
      THEN IF ContainsAny(user_lower, {"home", "office", "public", "wifi", "ethernet"})
           THEN stripped ELSE NULL
      ELSE IF Contains(field_lower, "account")
      THEN IF ContainsAny(user_lower, {"office365", "exchange", "imap", "gmail", "outlook"})
           THEN stripped ELSE NULL
      ELSE IF Contains(field_lower, "email") \/ Contains(field_lower, "user id")
      THEN IF Contains(user_input, "@") \/ Len(user_input) > 3 THEN stripped ELSE NULL
      ELSE IF WordCount(user_input) <= 5 /\ Len(user_input) > 1 THEN stripped
      ELSE NULL

\* 'bye' words of _handle_greeting
SaysGoodbye(user_input) ==
  ContainsAny(Lower(Strip(user_input)), {"bye", "goodbye", "thanks", "thank you"})

\* the decision _handle_keep_ignore_response reads from a reply
KeepIgnoreChoice(user_input) ==
  LET user_lower == Lower(Strip(user_input)) IN
  IF Contains(user_lower, "ignore") THEN "ignore"
  ELSE IF Contains(user_lower, "keep") THEN "keep"
  ELSE NULL

\* The text functions are functions of the text alone. Their values over the
\* texts and field names of the model are tabulated once, and the handlers
\* read the tables.
ClearlyNewMemo ==
  [u \in AllTexts, d \in AllTexts, f \in AllFields |-> IsClearlyNewIssueDescription(u, d, f)]

LikelyAnswerMemo == [u \in AllTexts, f \in AllFields |-> LikelyAnswerToField(u, f)]

ExtractValueMemo == [u \in AllTexts, f \in AllFields |-> ExtractValue(u, f)]

TextMemo ==
  [u \in AllTexts |->
     [word_count  |-> WordCount(u),
      not_command |-> NotCommand(u),
      incident_id |-> SearchIncidentId(u),
      goodbye     |-> SaysGoodbye(u),
      keep_ignore |-> KeepIgnoreChoice(u)]]

(***************************************************************************)
(* Intent classification (LLMService.detect_intent and the two keyword     *)
(* fallbacks)                                                              *)
(***************************************************************************)

IntentLabels ==
  {"GREETING", "GREETING_CONTEXT", "UNRELATED_QUERY", "CLEAR_SESSION",
   "TRACK_INCIDENT", "ASK_INCIDENT_TYPE", "ASK_INCOMPLETE_INCIDENT",
   "PROVIDE_INCIDENT_ID", "CLOSE_INCIDENT", "ASK_PREVIOUS_SOLUTION",
   "NEW_INCIDENT", "CONTINUE_INCIDENT", "GENERAL_QUERY"}

\* intent_data: the dict detect_intent returns. `empty` is the dict {} (falsy)
IntentData(intent, extracted) == [intent |-> intent, extracted |-> extracted, empty |-> FALSE]
EmptyIntentData == [intent |-> NULL, extracted |-> NULL, empty |-> TRUE]

\* LLMService._fallback_intent_detection
LlmFallbackIntentDetection(user_input, has_active_incident) ==
  LET user_lower == Lower(Strip(user_input)) IN
  IF ContainsAny(user_lower, {"hi", "hello", "hey", "good morning", "good afternoon", "good evening"})
  THEN IntentData("GREETING", NULL)
  ELSE IF ContainsAny(user_lower, {"track", "check", "status", "view incident", "my incident"})
  THEN IntentData("TRACK_INCIDENT", NULL)
  ELSE IF ContainsAny(user_lower, {"close", "finish", "done", "complete incident", "end incident"})
  THEN IntentData("CLOSE_INCIDENT", NULL)
  ELSE IF ContainsAny(user_lower, {"clear", "exit", "end session", "start fresh", "reset",
                                   "new session", "start", "restart"})
  THEN IntentData("CLEAR_SESSION", NULL)
  ELSE IF SearchIncidentId(user_input) # NULL
  THEN IntentData("PROVIDE_INCIDENT_ID", SearchIncidentId(user_input))
  ELSE IF ContainsAny(user_lower, {"previous", "last", "solution", "view solution"})
  THEN IntentData("ASK_PREVIOUS_SOLUTION", NULL)
  ELSE IntentData(IF has_active_incident THEN "CONTINUE_INCIDENT" ELSE "NEW_INCIDENT", NULL)

\* IncidentService._fallback_intent_detection
ServiceFallbackIntentDetection(user_input, has_active_incident) ==
  LET user_lower == Lower(Strip(user_input)) IN
  IF ContainsAny(user_lower, {"hi", "hello", "hey", "good morning", "good afternoon"})
  THEN IntentData("GREETING", NULL)
  ELSE IF ContainsAny(user_lower, {"track", "check", "status", "view incident"})
  THEN IntentData("TRACK_INCIDENT", NULL)
  ELSE IF ContainsAny(user_lower, {"create", "new incident", "report"})
  THEN IntentData("NEW_INCIDENT", NULL)
  ELSE IF SearchIncidentId(user_input) # NULL
  THEN IntentData("PROVIDE_INCIDENT_ID", SearchIncidentId(user_input))
  ELSE IntentData(IF has_active_incident THEN "CONTINUE_INCIDENT" ELSE "NEW_INCIDENT", NULL)

NewIssueIndicators ==
  {"not opening", "not working", "not connecting", "cannot access",
   "failed", "broken", "error", "issue with", "problem with",
   "outlook", "email", "vpn", "network", "wifi", "software",
   "install", "password", "login", "access", "connection"}

\* what the model call of detect_intent can come back with:
\*   unparseable  - no JSON object in the text (a failed call returns an
\*                  apology text, so it is this case too), or invalid JSON
\*   empty_object - the JSON object {}
\*   no_intent    - a JSON object without the key 'intent'
\*   label        - a JSON object with 'intent' (any text) and, possibly,
\*                  'extracted_incident_id'
LlmReply(kind, intent, extracted) == [kind |-> kind, intent |-> intent, extracted |-> extracted]

LlmUnparseable == LlmReply("unparseable", NULL, NULL)
LlmEmptyObject == LlmReply("empty_object", NULL, NULL)
LlmNoIntent    == LlmReply("no_intent", NULL, NULL)
NoLlmCall      == LlmReply("not_called", NULL, NULL)

\* the check detect_intent makes before it calls the model: with an active
\* incident, an utterance holding an issue indicator is NEW_INCIDENT unless
\* the last assistant message shares more than one indicator word with the
\* indicator list (bot_echo: a property of the phrased message)
PrecheckIndicator(user_input, has_active_incident) ==
  has_active_incident /\ ContainsAny(Lower(Strip(user_input)), NewIssueIndicators)

\* the keyword checks of intent detection, tabulated over the texts
IntentMemo ==
  [u \in AllTexts, a \in BOOLEAN |->
     [indicator        |-> PrecheckIndicator(u, a),
      llm_fallback     |-> LlmFallbackIntentDetection(u, a),
      service_fallback |-> ServiceFallbackIntentDetection(u, a)]]

DetectIntent(user_input, conversation_history, has_active_incident, llm, bot_echo) ==
  IF /\ IntentMemo[user_input, has_active_incident].indicator
     /\ (conversation_history = <<>> \/ ~bot_echo)
  THEN IntentData("NEW_INCIDENT", NULL)
  ELSE CASE llm.kind = "label"        -> IntentData(llm.intent, llm.extracted)
         [] llm.kind = "no_intent"    -> IntentData(NULL, NULL)
         [] llm.kind = "empty_object" -> EmptyIntentData
         [] OTHER -> IntentMemo[user_input, has_active_incident].llm_fallback

\* process_user_query, lines 206-218: the intent the dispatch uses
ResolveIntent(user_input, conversation_history, has_active_incident, llm, bot_echo) ==
  LET d  == DetectIntent(user_input, conversation_history, has_active_incident, llm, bot_echo)
      d2 == IF d.empty THEN IntentMemo[user_input, has_active_incident].service_fallback ELSE d
  IN  [d2 EXCEPT !.intent = IF @ = NULL THEN "GENERAL_QUERY" ELSE @]

(***************************************************************************)
(* Results                                                                 *)
(***************************************************************************)

\* the dict a handler returns; keys a handler leaves out hold NULL / FALSE
Res(message, session_id, incident_id, status) ==
  [returned            |-> TRUE,
   message             |-> message,
   session_id          |-> session_id,
   incident_id         |-> incident_id,
   status              |-> status,
   action              |-> NULL,
   show_action_buttons |-> FALSE,
   action_buttons      |-> NULL,
   value               |-> NULL]

ResMenu(message, session_id, incident_id, status) ==
  [Res(message, session_id, incident_id, status) EXCEPT
     !.show_action_buttons = TRUE, !.action_buttons = "track/create/incomplete"]

ResKeepIgnore(message, session_id, incident_id, status) ==
  [Res(message, session_id, incident_id, status) EXCEPT
     !.show_action_buttons = TRUE, !.action_buttons = "keep/ignore"]

\* a function that falls off its end returns None
ReturnedNone ==
  [returned |-> FALSE, message |-> NULL, session_id |-> NULL, incident_id |-> NULL,
   status |-> NULL, action |-> NULL, show_action_buttons |-> FALSE, action_buttons |-> NULL,
   value |-> NULL]

ErrorMessage == "I apologize, but I encountered an error processing your request. Please try again."

\* an except branch that falls off its end
CreateErrorResponseNothing(session_id) == ReturnedNone

\* _create_error_response: session_id or ""
CreateErrorResponse(session_id) ==
  Res(ErrorMessage, IF session_id = NULL THEN "" ELSE session_id, NULL, "error")

\* what a handler hands back: the stores as it leaves them, its result, and
\* whether it raised instead of returning
Out(db, res) == [db |-> db, result |-> res, raised |-> FALSE]
Raise(db)    == [db |-> db, result |-> ReturnedNone, raised |-> TRUE]

(***************************************************************************)
(* Phrasing: the wording of a message is the phrasing service's; a message *)
(* is modelled by the situation it was phrased for and its parameters      *)
(***************************************************************************)

MsgGreeting          == "initial greeting"
MsgGoodbye           == "polite goodbye"
MsgGreetingContext   == "greeting with context"
MsgGeneral           == "general query answer"
MsgDifferentTopic    == "I notice we were discussing a different topic."
MsgFreshSession      == "fresh session greeting"
MsgTrackRequest      == "please provide the incident id to track"
MsgStatusResponse    == "incident status response"
MsgNothingToClose    == "You don't have any active incidents to close."
MsgCloseNotFound     == "I couldn't find the incident to close. Please try again."
MsgAskPreviousId     == "Please provide the Incident ID of the previous incident"
MsgAskIncompleteId   == "Please provide the Incident ID to continue"
MsgNoValidId         == "I couldn't find a valid Incident ID in your message."
MsgKeepIgnoreClarify == "keep or ignore clarification"
MsgAskIncidentType   == "what issue are you facing"
MsgConfirmCreation   == "incident creation confirmation"
MsgCreateError       == "I apologize, but I encountered an error creating your incident. Please try again."

MsgCompleteFirst(last_question) == "Let's first complete your current incident. " \o last_question
MsgNotFound(id)          == "I couldn't find an incident with ID: " \o id
MsgNoPrevious(id)        == "No previous incident found for ID: " \o id
MsgSelectionNotFound(id) == "Incident " \o id \o " not found. Please provide a valid Incident ID"
MsgCloseConfirm(id)      == "close confirmation " \o id
MsgKeepIgnore(id)        == "keep or ignore " \o id
MsgSelection(ids)        == "incident selection " \o ToString(Len(ids))
MsgSelectionRetry(ids)   == "incident selection retry " \o ToString(Len(ids))
MsgCompletion(id)        == "incident completion " \o id
MsgResume(id, what)      == "Continuing with " \o id \o ". " \o what
MsgSolution(id)          == "Incident " \o id \o " - Solution Details"
MsgInStatus(id, status)  == "Incident " \o id \o " is currently in " \o status \o " status."
MsgSelected(id, status)  == id \o " - Status: " \o status
MsgGenericQuestion(field) == "Can you provide information about: " \o field \o "?"
MsgMoreDetails           == "Can you provide more details about this issue?"
MsgFollowup(field, last_question) ==
  "I need specific information about: " \o field \o ". " \o last_question
MsgDescribe(user_input)  == "Can you provide more details about this problem: " \o user_input

\* generate_kb_question: the model phrases a question about the missing fields
MsgKbQuestion(missing_info) ==
  "kb question: " \o (IF missing_info = <<>> THEN "" ELSE missing_info[1])

\* generate_default_admin_message
DefaultAdminMessage(status) == "default admin message: " \o status

(***************************************************************************)
(* Handlers of the intents that create and collect nothing                 *)
(***************************************************************************)

LastOf(seq) == IF seq = <<>> THEN NULL ELSE seq[Len(seq)]

StatusOf(db, id) == IF id # NULL /\ HasIncident(db, id) THEN db.incidents[id].status ELSE NULL

HandleGreeting(db, user_input, session_id) ==
  LET response == IF TextMemo[user_input].goodbye THEN MsgGoodbye ELSE MsgGreeting
  IN  Out(UpdateSessionContext(db, session_id, user_input, response),
          ResMenu(response, session_id, NULL, NULL))

HandleGreetingContext(db, user_input, session_id, active_incidents) ==
  LET current_incident_id == LastOf(active_incidents) IN
  Out(UpdateSessionContext(db, session_id, user_input, MsgGreetingContext),
      Res(MsgGreetingContext, session_id, current_incident_id, StatusOf(db, current_incident_id)))

\* with no active incident the return statement reads current_incident, which
\* was never assigned: UnboundLocalError, after the context was written
HandleUnrelatedQuery(db, user_input, session_id, active_incidents) ==
  IF active_incidents = <<>>
  THEN Raise(UpdateSessionContext(db, session_id, user_input, MsgGeneral))
  ELSE LET current_incident_id == LastOf(active_incidents)
           response ==
             IF StatusOf(db, current_incident_id) = "pending_info"
             THEN MsgCompleteFirst(LastAssistant(db.incidents[current_incident_id].conversation_history))
             ELSE MsgDifferentTopic
       IN  Out(UpdateSessionContext(db, session_id, user_input, response),
               Res(response, session_id, current_incident_id, StatusOf(db, current_incident_id)))

HandleClearSession(db, session_id, user_input) ==
  Out(UpdateSessionContext(ClearSession(db, session_id), session_id, user_input, MsgFreshSession),
      [ResMenu(MsgFreshSession, session_id, NULL, "session_cleared") EXCEPT !.action = "clear_session"])

HandleTrackIncidentRequest(db, user_input, session_id) ==
  Out(UpdateSessionContext(db, session_id, user_input, MsgTrackRequest),
      Res(MsgTrackRequest, session_id, NULL, "awaiting_incident_id"))

HandleTrackIncidentById(db, incident_id, user_input, session_id) ==
  IF ~HasIncident(db, incident_id)
  THEN Out(UpdateSessionContext(db, session_id, user_input, MsgNotFound(incident_id)),
           Res(MsgNotFound(incident_id), session_id, NULL, "not_found"))
  ELSE Out(UpdateSessionContext(db, session_id, user_input, MsgStatusResponse),
           Res(MsgStatusResponse, session_id, incident_id, db.incidents[incident_id].status))

HandleCloseIncident(db, active_incidents, user_input, session_id) ==
  IF active_incidents = <<>>
  THEN Out(UpdateSessionContext(db, session_id, user_input, MsgNothingToClose),
           Res(MsgNothingToClose, session_id, NULL, NULL))
  ELSE LET incident_id == LastOf(active_incidents) IN
       IF HasIncident(db, incident_id)
       THEN LET db1 == MongoUpdateIncident(db, incident_id,
                         [status |-> "closed", closed_on |-> db.now])
                db2 == RemoveIncidentFromSession(db1, session_id, incident_id)
            IN  Out(UpdateSessionContext(db2, session_id, user_input, MsgCloseConfirm(incident_id)),
                    Res(MsgCloseConfirm(incident_id), session_id, incident_id, "closed"))
       ELSE Out(UpdateSessionContext(db, session_id, user_input, MsgCloseNotFound),
                Res(MsgCloseNotFound, session_id, NULL, "error"))

HandleAskPreviousSolution(db, user_input, session_id) ==
  Out(MongoUpdateSession(UpdateSessionContext(db, session_id, user_input, MsgAskPreviousId),
                         session_id, [awaiting_response |-> "previous_solution_id"]),
      Res(MsgAskPreviousId, session_id, NULL, "awaiting_previous_incident_id"))

HandleAskIncompleteIncident(db, user_input, session_id) ==
  Out(MongoUpdateSession(UpdateSessionContext(db, session_id, user_input, MsgAskIncompleteId),
                         session_id, [awaiting_response |-> "previous_solution_id"]),
      Res(MsgAskIncompleteId, session_id, NULL, "awaiting_previous_incident_id"))

HandleAskIncidentType(db, user_input, session_id) ==
  Out(MongoUpdateSession(UpdateSessionContext(db, session_id, user_input, MsgAskIncidentType),
                         session_id, [awaiting_response |-> "issue_description"]),
      Res(MsgAskIncidentType, session_id, NULL, "awaiting_issue_description"))

HandleGeneralQuery(db, user_input, session_id) ==
  Out(UpdateSessionContext(db, session_id, user_input, MsgGeneral),
      Res(MsgGeneral, session_id, NULL, NULL))

\* a resumption that leaves the session's active incidents alone
ResumePreviousNotAdded(db, incident, incident_id, user_input, session_id) ==
  LET last_question == LastAssistant(incident.conversation_history)
      what == IF last_question # "" THEN "Let's continue: " \o last_question
              ELSE IF incident.missing_info # <<>>
                   THEN MsgGenericQuestion(incident.missing_info[1])
                   ELSE MsgMoreDetails
      response == MsgResume(incident_id, what)
  IN  Out(UpdateSessionContext(db, session_id, user_input, response),
          Res(response, session_id, incident_id, "pending_info"))

\* lines 710-741 of _handle_previous_solution_id: an incident that is
\* pending_info or open is resumed from its last question and joins the
\* session's active incidents
ResumePrevious(db, incident, incident_id, user_input, session_id) ==
  LET last_question == LastAssistant(incident.conversation_history)
      what == IF last_question # "" THEN "Let's continue: " \o last_question
              ELSE IF incident.missing_info # <<>>
                   THEN MsgGenericQuestion(incident.missing_info[1])
                   ELSE MsgMoreDetails
      response == MsgResume(incident_id, what)
      db2 == UpdateSessionContext(db, session_id, user_input, response)
  IN  Out(AddIncidentToSession(db2, session_id, incident_id),
          Res(response, session_id, incident_id, "pending_info"))

\* _handle_previous_solution_id
HandlePreviousSolutionId(db, user_input, session_id) ==
  LET incident_id == TextMemo[user_input].incident_id IN
  IF incident_id = NULL
  THEN Out(UpdateSessionContext(db, session_id, user_input, MsgNoValidId),
           Res(MsgNoValidId, session_id, NULL, "awaiting_previous_incident_id"))
  ELSE IF ~HasIncident(db, incident_id)
  THEN Out(MongoUpdateSession(UpdateSessionContext(db, session_id, user_input, MsgNoPrevious(incident_id)),
                              session_id, [awaiting_response |-> NULL]),
           Res(MsgNoPrevious(incident_id), session_id, NULL, "incident_not_found"))
  ELSE LET incident == db.incidents[incident_id]
           db1      == MongoUpdateSession(db, session_id, [awaiting_response |-> NULL])
       IN  IF incident.status \in {"pending_info", "open"}
           THEN ResumePrevious(db1, incident, incident_id, user_input, session_id)
           ELSE IF incident.status = "resolved"
           THEN Out(UpdateSessionContext(db1, session_id, user_input, MsgSolution(incident_id)),
                    Res(MsgSolution(incident_id), session_id, incident_id, "solution_displayed"))
           ELSE Out(UpdateSessionContext(db1, session_id, user_input, MsgInStatus(incident_id, incident.status)),
                    Res(MsgInStatus(incident_id, incident.status), session_id, incident_id, incident.status))

\* a KEEP/IGNORE prompt that stages nothing
HandleNewIncidentWithActiveUnstaged(db, user_input, session_id, active_incidents) ==
  LET current_incident_id == LastOf(active_incidents)
      response == MsgKeepIgnore(current_incident_id)
      db1 == UpdateSessionContext(db, session_id, user_input, response)
      db2 == MongoUpdateSession(db1, session_id, [awaiting_response |-> "keep_or_ignore"])
  IN  Out(db2, ResKeepIgnore(response, session_id, current_incident_id, "awaiting_decision"))

\* _handle_new_incident_with_active: the KEEP/IGNORE prompt
HandleNewIncidentWithActive(db, user_input, session_id, active_incidents) ==
  LET current_incident_id == LastOf(active_incidents)
      response == MsgKeepIgnore(current_incident_id)
      db1 == UpdateSessionContext(db, session_id, user_input, response)
      db2 == MongoUpdateSession(db1, session_id,
               [awaiting_response |-> "keep_or_ignore", pending_new_incident_query |-> user_input])
  IN  Out(db2, ResKeepIgnore(response, session_id, current_incident_id, "awaiting_decision"))

(***************************************************************************)
(* KB lookup                                                               *)
(***************************************************************************)

\* the match_data search_kb builds from the vector store's metadata of the
\* entry it ranks best; NULL stands for "no candidate clears the threshold"
BestMatch(kb_id) ==
  [kb_id          |-> kb_id,
   required_info  |-> SplitComma(kb[kb_id].required_info),
   questions      |-> SplitComma(kb[kb_id].questions),
   solution_steps |-> kb[kb_id].solution_steps]

\* an outcome of the search: the embedding call or the vector store raised
KbLookupFailed == "KB lookup failed"

\* search_kb's best_match for an outcome of the search: the id of the best
\* entry above the threshold, or none; its except branch answers a failure
\* with best_match None
SearchKb(outcome) == IF outcome = KbLookupFailed THEN NULL ELSE outcome

\* get_kb_entry(kb_id) is not None
KbEntryExists(kb_id) == kb_id \in DOMAIN kb

(***************************************************************************)
(* Incident creation                                                       *)
(***************************************************************************)

IncidentDoc(incident_id, user_demand, session_id, kb_id, required_info, questions, solution_steps, new_kb, admin_message) ==
  [incident_id          |-> incident_id,
   oid                  |-> 0,
   user_demand          |-> user_demand,
   session_id           |-> session_id,
   status               |-> "pending_info",
   kb_id                |-> kb_id,
   collected_info       |-> EmptyDict,
   required_info        |-> required_info,
   missing_info         |-> required_info,
   questions            |-> questions,
   solution_steps       |-> solution_steps,
   conversation_history |-> <<>>,
   is_new_kb_entry      |-> new_kb,
   needs_kb_approval    |-> new_kb,
   requires_kb_addition |-> new_kb,
   admin_message        |-> admin_message,
   completed            |-> FALSE]

\* _create_new_incident
CreateNewIncident(db, user_input, session_id, best_match) ==
  LET incident_id == GenerateIncidentId(db)
      doc == IncidentDoc(incident_id, user_input, session_id, best_match.kb_id,
                         best_match.required_info, best_match.questions,
                         best_match.solution_steps, FALSE, DefaultAdminMessage("pending_info"))
      db1 == MongoCreateIncident(db, doc)
      db2 == AddIncidentToSession(db1, session_id, incident_id)
      question == MsgKbQuestion(best_match.required_info)
      db3 == MongoUpdateIncident(db2, incident_id,
               [conversation_history |-> <<Msg("user", user_input), Msg("assistant", question)>>])
      db4 == UpdateSessionContext(db3, session_id, user_input, question)
  IN  Out(db4, Res(question, session_id, incident_id, "pending_info"))

\* _create_new_incident_without_kb
CreateNewIncidentWithoutKb(db, user_input, session_id, analysis) ==
  LET incident_id == GenerateIncidentId(db)
      doc == IncidentDoc(incident_id, user_input, session_id, NULL,
                         analysis.required_info, analysis.clarifying_questions,
                         "", TRUE, DefaultAdminMessage("pending_info"))
      db1 == MongoCreateIncident(db, doc)
      db2 == AddIncidentToSession(db1, session_id, incident_id)
      question == IF analysis.clarifying_questions # <<>>
                  THEN analysis.clarifying_questions[1]
                  ELSE MsgDescribe(user_input)
      db3 == MongoUpdateIncident(db2, incident_id,
               [conversation_history |-> <<Msg("user", user_input), Msg("assistant", question)>>])
      db4 == UpdateSessionContext(db3, session_id, user_input, question)
  IN  Out(db4, Res(question, session_id, incident_id, "pending_info"))

\* _handle_new_incident. kb_match: the kb_id of search_kb's best match or
\* NULL; analysis: the answer of analyze_technical_issue, used without a match.
\* For an issue that is not technical the handler calls
\* llm_service.generate_not_technical_issue_response, a method LLMService
\* does not define: AttributeError, before the context is written
HandleNewIncident(db, user_input, session_id, kb_match, analysis) ==
  IF kb_match # NULL
  THEN CreateNewIncident(db, user_input, session_id, BestMatch(kb_match))
  ELSE IF analysis.is_technical_issue
  THEN CreateNewIncidentWithoutKb(db, user_input, session_id, analysis)
  ELSE Raise(db)

(***************************************************************************)
(* Field collection                                                        *)
(***************************************************************************)

\* a finalization that forgets to move the incident to open
FinalizeIncidentLeavesPending(db, incident_id, session_id, collected_info, conversation, user_input) ==
  LET final_message == MsgCompletion(incident_id)
      db1 == MongoUpdateIncident(db, incident_id,
               [conversation_history |-> Append(conversation, Msg("assistant", final_message)),
                collected_info       |-> collected_info,
                missing_info         |-> <<>>,
                completed            |-> TRUE])
  IN  Out(UpdateSessionContext(db1, session_id, user_input, final_message),
          Res(final_message, session_id, incident_id, "open"))

\* _finalize_incident
FinalizeIncident(db, incident_id, session_id, collected_info, conversation, user_input) ==
  LET final_message == MsgCompletion(incident_id)
      db1 == MongoUpdateIncident(db, incident_id,
               [status               |-> "open",
                conversation_history |-> Append(conversation, Msg("assistant", final_message)),
                collected_info       |-> collected_info,
                missing_info         |-> <<>>,
                admin_message        |-> DefaultAdminMessage("open"),
                completed            |-> TRUE])
  IN  Out(UpdateSessionContext(db1, session_id, user_input, final_message),
          Res(final_message, session_id, incident_id, "open"))

\* the next question after an accepted answer
NextQuestion(incident, collected_info, missing_info) ==
  IF incident.kb_id # NULL /\ incident.kb_id # ""
  THEN IF KbEntryExists(incident.kb_id)
       THEN MsgKbQuestion(missing_info)
       ELSE MsgGenericQuestion(missing_info[1])
  ELSE LET questions_asked == Cardinality(DOMAIN collected_info) IN
       IF questions_asked < Len(incident.questions)
       THEN incident.questions[questions_asked + 1]
       ELSE MsgGenericQuestion(missing_info[1])

\* a pop that takes the last field
PopFrontTakesLast(missing_info) == SubSeq(missing_info, 1, Len(missing_info) - 1)

\* missing_info.pop(0)
PopFront(missing_info) == Tail(missing_info)

\* a rejection that drops the field it asked for
InvalidResponseSkipsField(db, incident, conversation, user_input, session_id) ==
  LET current_field == incident.missing_info[1]
      followup == MsgFollowup(current_field, LastAssistant(conversation))
      db1 == MongoUpdateIncident(db, incident.incident_id,
               [conversation_history |-> Append(conversation, Msg("assistant", followup)),
                missing_info         |-> Tail(incident.missing_info)])
  IN  Out(UpdateSessionContext(db1, session_id, user_input, followup),
          Res(followup, session_id, incident.incident_id, "pending_info"))

\* _continue_incident, the answer was not accepted: the last question of the
\* transcript is asked again; only conversation_history is written
InvalidResponse(db, incident, conversation, user_input, session_id) ==
  LET current_field == incident.missing_info[1]
      followup == MsgFollowup(current_field, LastAssistant(conversation))
      db1 == MongoUpdateIncident(db, incident.incident_id,
               [conversation_history |-> Append(conversation, Msg("assistant", followup))])
  IN  Out(UpdateSessionContext(db1, session_id, user_input, followup),
          Res(followup, session_id, incident.incident_id, "pending_info"))

\* _continue_incident, on the incident document the caller fetched
ContinueIncident(db, incident, user_input, session_id) ==
  LET incident_id == incident.incident_id
      missing_info == incident.missing_info
  IN
  IF missing_info = <<>>
  THEN FinalizeIncident(db, incident_id, session_id, incident.collected_info,
                        incident.conversation_history, user_input)
  ELSE
    LET current_field == missing_info[1]
        conversation  == Append(incident.conversation_history, Msg("user", user_input))
        extracted_value == ExtractValueMemo[user_input, current_field]
    IN
    IF extracted_value # NULL
    THEN LET collected1 == DictPut(incident.collected_info, current_field, extracted_value)
             missing1   == PopFront(missing_info)
             db1 == MongoUpdateIncident(db, incident_id,
                      [conversation_history |-> conversation,
                       collected_info       |-> collected1,
                       missing_info         |-> missing1])
         IN  IF missing1 = <<>>
             THEN FinalizeIncident(db1, incident_id, session_id, collected1, conversation, user_input)
             ELSE LET next_question == NextQuestion(incident, collected1, missing1)
                      db2 == MongoUpdateIncident(db1, incident_id,
                               [conversation_history |->
                                  Append(conversation, Msg("assistant", next_question))])
                  IN  Out(UpdateSessionContext(db2, session_id, user_input, next_question),
                          Res(next_question, session_id, incident_id, "pending_info"))
    ELSE InvalidResponse(db, incident, conversation, user_input, session_id)

(***************************************************************************)
(* Pending-slot handlers                                                   *)
(***************************************************************************)

RECURSIVE DeleteAll(_, _)
DeleteAll(db, ids) ==
  IF ids = <<>> THEN db ELSE DeleteAll(MongoDeleteIncident(db, Head(ids)), Tail(ids))

\* a clarification that drops the staged query
KeepIgnoreClarificationUnstaged(db, user_input, session_id, pending_query) ==
  LET db1 == UpdateSessionContext(db, session_id, user_input, MsgKeepIgnoreClarify)
      db2 == MongoUpdateSession(db1, session_id,
               [awaiting_response |-> "keep_or_ignore",
                pending_new_incident_query |-> NULL])
  IN  Out(db2, ResKeepIgnore(MsgKeepIgnoreClarify, session_id, NULL, "awaiting_decision"))

\* _handle_keep_ignore_response, the reply names neither KEEP nor IGNORE:
\* the clarification is sent and the slot and the staged query are written
\* back as they were read
KeepIgnoreClarification(db, user_input, session_id, pending_query) ==
  LET db1 == UpdateSessionContext(db, session_id, user_input, MsgKeepIgnoreClarify)
      db2 == MongoUpdateSession(db1, session_id,
               [awaiting_response |-> "keep_or_ignore",
                pending_new_incident_query |-> pending_query])
  IN  Out(db2, ResKeepIgnore(MsgKeepIgnoreClarify, session_id, NULL, "awaiting_decision"))

\* _handle_keep_ignore_response
HandleKeepIgnoreResponse(db, user_input, session_id, active_incidents, kb_match, analysis) ==
  LET choice        == TextMemo[user_input].keep_ignore
      pending_query == db.sessions[session_id].pending_new_incident_query
  IN
  IF choice = "ignore"
  THEN LET db1 == DeleteAll(db, active_incidents)
           db2 == MongoUpdateSession(db1, session_id,
                    [conversation_context       |-> <<>>,
                     active_incidents           |-> <<>>,
                     pending_new_incident_query |-> NULL,
                     awaiting_response          |-> NULL])
       IN  HandleNewIncident(db2,
                             IF pending_query # NULL /\ pending_query # "" THEN pending_query ELSE user_input,
                             session_id, kb_match, analysis)
  ELSE IF choice = "keep"
  THEN LET new_incident_id == GenerateIncidentId(db)
           db1 ==
             IF kb_match # NULL
             THEN LET bm == BestMatch(kb_match) IN
                  AddIncidentToSession(
                    MongoCreateIncident(db,
                      IncidentDoc(new_incident_id, pending_query, session_id, bm.kb_id,
                                  bm.required_info, bm.questions, bm.solution_steps, FALSE, "")),
                    session_id, new_incident_id)
             ELSE IF analysis.is_technical_issue
             THEN AddIncidentToSession(
                    MongoCreateIncident(db,
                      IncidentDoc(new_incident_id, pending_query, session_id, NULL,
                                  analysis.required_info, analysis.clarifying_questions,
                                  "", TRUE, "")),
                    session_id, new_incident_id)
             ELSE db
           all_incidents == db1.sessions[session_id].active_incidents
           response == MsgSelection(all_incidents)
           db2 == UpdateSessionContext(db1, session_id, user_input, response)
           db3 == MongoUpdateSession(db2, session_id,
                    [awaiting_response |-> "incident_id_selection",
                     pending_new_incident_query |-> NULL])
       IN  Out(db3, Res(response, session_id, NULL, "awaiting_incident_selection"))
  ELSE KeepIgnoreClarification(db, user_input, session_id, pending_query)

\* _handle_incident_selection
HandleIncidentSelection(db, user_input, session_id, active_incidents) ==
  LET selected_incident_id == TextMemo[user_input].incident_id IN
  IF selected_incident_id = NULL
  THEN Out(UpdateSessionContext(db, session_id, user_input, MsgSelectionRetry(active_incidents)),
           Res(MsgSelectionRetry(active_incidents), session_id, NULL, "awaiting_incident_selection"))
  ELSE IF ~HasIncident(db, selected_incident_id)
  THEN Out(UpdateSessionContext(db, session_id, user_input, MsgSelectionNotFound(selected_incident_id)),
           Res(MsgSelectionNotFound(selected_incident_id), session_id, NULL, "awaiting_incident_selection"))
  ELSE LET incident == db.incidents[selected_incident_id]
           db1 == MongoUpdateSession(db, session_id, [awaiting_response |-> NULL])
       IN  IF incident.status = "pending_info"
           THEN ContinueIncident(db1, incident, DummyContinue, session_id)
           ELSE Out(UpdateSessionContext(db1, session_id, user_input,
                                         MsgSelected(selected_incident_id, incident.status)),
                    Res(MsgSelected(selected_incident_id, incident.status), session_id,
                        selected_incident_id, incident.status))

(***************************************************************************)
(* process_user_query: session resolution and the dispatch ladder          *)
(***************************************************************************)

\* a session resolution that creates a session whatever id it is given
GetOrCreateSessionAlwaysFresh(db, sid_arg) ==
  LET fresh == FreshSessionId(db) IN
  [db |-> MongoCreateSession(db, fresh, NewSessionDoc), session_id |-> fresh]

\* get_or_create_session: the id the turn runs under and the stores after it
GetOrCreateSession(db, sid_arg) ==
  IF sid_arg # NULL /\ sid_arg \in DOMAIN db.sessions
  THEN [db |-> db, session_id |-> sid_arg]
  ELSE LET fresh == FreshSessionId(db) IN
       [db |-> MongoCreateSession(db, fresh, NewSessionDoc), session_id |-> fresh]

\* which steps of the ladder a turn went through
Trace(op, user_input, session_id, context_len, route, heuristic, shortcut, classifier, reply, intent, kb_match, failed, analysis) ==
  [op |-> op, user_input |-> user_input, session_id |-> session_id,
   context_len |-> context_len, route |-> route, heuristic |-> heuristic,
   shortcut |-> shortcut, classifier |-> classifier, reply |-> reply, intent |-> intent,
   kb_match |-> kb_match, failed |-> failed, analysis |-> analysis]

NoTrace(op) == Trace(op, NULL, NULL, 0, NULL, FALSE, FALSE, FALSE, NULL, NULL, NULL, {}, <<>>)

SlotNames == {"issue_description", "keep_or_ignore", "previous_solution_id", "incident_id_selection"}

FirstMissing(incident) == IF incident.missing_info = <<>> THEN "" ELSE incident.missing_info[1]

\* lines 172-182: the new-issue heuristic is consulted
HeuristicConsulted(db, session) ==
  /\ session.active_incidents # <<>>
  /\ session.awaiting_response = NULL
  /\ StatusOf(db, LastOf(session.active_incidents)) = "pending_info"

NewIssueWhileActive(db, session, user_input) ==
  /\ HeuristicConsulted(db, session)
  /\ LET current_incident == db.incidents[LastOf(session.active_incidents)] IN
     ClearlyNewMemo[user_input, current_incident.user_demand, FirstMissing(current_incident)]

\* _is_likely_answer_to_current_question
IsLikelyAnswerToCurrentQuestion(db, user_input, active_incidents) ==
  /\ active_incidents # <<>>
  /\ StatusOf(db, LastOf(active_incidents)) = "pending_info"
  /\ db.incidents[LastOf(active_incidents)].missing_info # <<>>
  /\ LikelyAnswerMemo[user_input, db.incidents[LastOf(active_incidents)].missing_info[1]]

\* lines 185-203: the likely-answer shortcut is consulted / taken
ShortcutConsulted(session) ==
  session.active_incidents # <<>> /\ session.awaiting_response = NULL

ShortcutTaken(db, session, user_input) ==
  /\ ShortcutConsulted(session)
  /\ TextMemo[user_input].word_count <= 7
  /\ IsLikelyAnswerToCurrentQuestion(db, user_input, session.active_incidents)
  /\ TextMemo[user_input].not_command
  /\ GetPendingIncidents(db, session.active_incidents) # <<>>

\* a ladder without the slot rung
RouteOfWithoutSlots(db, session, user_input) ==
  IF NewIssueWhileActive(db, session, user_input) THEN "new_issue"
  ELSE IF ShortcutTaken(db, session, user_input) THEN "likely_answer"
  ELSE "intent"

\* the rung of the ladder that handles the turn
RouteOf(db, session, user_input) ==
  IF session.awaiting_response \in SlotNames THEN session.awaiting_response
  ELSE IF NewIssueWhileActive(db, session, user_input) THEN "new_issue"
  ELSE IF ShortcutTaken(db, session, user_input) THEN "likely_answer"
  ELSE "intent"

\* lines 222-275: dispatch on the intent label
DispatchIntent(db, session, intent_data, user_input, session_id, kb_match, analysis) ==
  LET intent == intent_data.intent
      active_incidents == session.active_incidents
  IN
  CASE intent = "GREETING" -> HandleGreeting(db, user_input, session_id)
    [] intent = "GREETING_CONTEXT" -> HandleGreetingContext(db, user_input, session_id, active_incidents)
    [] intent = "UNRELATED_QUERY" -> HandleUnrelatedQuery(db, user_input, session_id, active_incidents)
    [] intent = "CLEAR_SESSION" -> HandleClearSession(db, session_id, user_input)
    [] intent = "TRACK_INCIDENT" -> HandleTrackIncidentRequest(db, user_input, session_id)
    [] intent = "ASK_INCIDENT_TYPE" -> HandleAskIncidentType(db, user_input, session_id)
    [] intent = "ASK_INCOMPLETE_INCIDENT" -> HandleAskIncompleteIncident(db, user_input, session_id)
    [] intent = "PROVIDE_INCIDENT_ID" ->
         HandleTrackIncidentById(db, intent_data.extracted, user_input, session_id)
    [] intent = "CLOSE_INCIDENT" -> HandleCloseIncident(db, active_incidents, user_input, session_id)
    [] intent = "ASK_PREVIOUS_SOLUTION" -> HandleAskPreviousSolution(db, user_input, session_id)
    [] intent = "NEW_INCIDENT" ->
         IF active_incidents # <<>>
         THEN HandleNewIncidentWithActive(db, user_input, session_id, active_incidents)
         ELSE HandleNewIncident(db, user_input, session_id, kb_match, analysis)
    [] intent = "CONTINUE_INCIDENT" ->
         LET pending_incidents == GetPendingIncidents(db, active_incidents) IN
         IF pending_incidents # <<>>
         THEN ContinueIncident(db, LastOf(pending_incidents), user_input, session_id)
         ELSE HandleNewIncident(db, user_input, session_id, kb_match, analysis)
    [] OTHER -> HandleGeneralQuery(db, user_input, session_id)

\* a description turn that leaves the slot set
IssueDescriptionKeepsSlot(db, active_incidents, user_input, session_id, kb_match, analysis) ==
  LET db2 == UpdateSessionContext(db, session_id, user_input, MsgConfirmCreation)
  IN  IF active_incidents # <<>>
      THEN HandleNewIncidentWithActive(db2, user_input, session_id, active_incidents)
      ELSE HandleNewIncident(db2, user_input, session_id, kb_match, analysis)

\* lines 127-152: the reply to "what is the issue?" is the description of a
\* new issue: the slot is cleared, the confirmation is written to the context
\* and the text goes to incident creation
IssueDescription(db, active_incidents, user_input, session_id, kb_match, analysis) ==
  LET db1 == MongoUpdateSession(db, session_id, [awaiting_response |-> NULL])
      db2 == UpdateSessionContext(db1, session_id, user_input, MsgConfirmCreation)
  IN  IF active_incidents # <<>>
      THEN HandleNewIncidentWithActive(db2, user_input, session_id, active_incidents)
      ELSE HandleNewIncident(db2, user_input, session_id, kb_match, analysis)

\* the body of the try block, from the loaded session on
Dispatch(db, session, user_input, session_id, llm, bot_echo, kb_match, analysis) ==
  LET active_incidents    == session.active_incidents
      has_active_incident == active_incidents # <<>>
      route               == RouteOf(db, session, user_input)
  IN
  CASE route = "issue_description" ->
         IssueDescription(db, active_incidents, user_input, session_id, kb_match, analysis)
    [] route = "keep_or_ignore" ->
         HandleKeepIgnoreResponse(db, user_input, session_id, active_incidents, kb_match, analysis)
    [] route = "previous_solution_id" -> HandlePreviousSolutionId(db, user_input, session_id)
    [] route = "incident_id_selection" ->
         HandleIncidentSelection(db, user_input, session_id, active_incidents)
    [] route = "new_issue" ->
         HandleNewIncidentWithActive(db, user_input, session_id, active_incidents)
    [] route = "likely_answer" ->
         ContinueIncident(db, LastOf(GetPendingIncidents(db, active_incidents)), user_input, session_id)
    [] OTHER ->
         DispatchIntent(db, session,
                        ResolveIntent(user_input, session.conversation_context,
                                      has_active_incident, llm, bot_echo),
                        user_input, session_id, kb_match, analysis)

\* lines 277-282: what the try block returned, or the error result when it
\* raised
Caught(out, session_id) ==
  [db     |-> out.db,
   result |-> IF out.raised THEN CreateErrorResponse(session_id) ELSE out.result]

\* process_user_query: the turn's result and the stores it leaves
ProcessUserQuery(db, user_input, sid_arg, llm, bot_echo, kb_match, analysis) ==
  LET resolved   == GetOrCreateSession(db, sid_arg)
      session_id == resolved.session_id
      loaded     == MongoGetSession(resolved.db, session_id)
      \* lines 115-120: an over-long stored context is cut before use
      db1        == IF Len(loaded.conversation_context) > ContextCap
                    THEN MongoUpdateSession(resolved.db, session_id,
                           [conversation_context |-> LastTen(loaded.conversation_context)])
                    ELSE resolved.db
      session    == [loaded EXCEPT !.conversation_context = LastTen(@)]
  IN  Caught(Dispatch(db1, session, user_input, session_id, llm, bot_echo, kb_match, analysis),
             session_id)

\* lines 152, 156, 257, 264: the turn reaches a search of the KB
ConsultsKb(db, session, user_input, llm, bot_echo) ==
  LET route == RouteOf(db, session, user_input)
      active_incidents == session.active_incidents
  IN  \/ route = "issue_description" /\ active_incidents = <<>>
      \/ /\ route = "keep_or_ignore"
         /\ TextMemo[user_input].keep_ignore \in {"ignore", "keep"}
      \/ /\ route = "intent"
         /\ LET intent == ResolveIntent(user_input, session.conversation_context,
                                        active_incidents # <<>>, llm, bot_echo).intent
            IN  \/ intent = "NEW_INCIDENT" /\ active_incidents = <<>>
                \/ /\ intent = "CONTINUE_INCIDENT"
                   /\ GetPendingIncidents(db, active_incidents) = <<>>

\* the trace of the turn: its input, the session it ran under and the length
\* of the context it loaded, the rung, whether each heuristic was evaluated,
\* whether detect_intent was called, what kind of reply the intent model
\* gave it, the intent the turn dispatched on, the KB entry the search
\* matched, and which of the two calls of incident creation failed
FailedCalls(consulted, kb_outcome, analysis) ==
  IF ~consulted THEN {}
  ELSE (IF kb_outcome = KbLookupFailed THEN {"kb_lookup"} ELSE {})
         \cup (IF SearchKb(kb_outcome) = NULL /\ analysis = AnFailed THEN {"analysis"} ELSE {})

\* the answers of analyze_technical_issue the turn used: none when the turn
\* did not call it (it is called only after a search without a match)
AnalysisVerdict(consulted, kb_outcome, analysis) ==
  IF consulted /\ SearchKb(kb_outcome) = NULL THEN <<analysis>> ELSE <<>>

TurnTrace(db, user_input, sid_arg, llm, bot_echo, kb_outcome, analysis) ==
  LET resolved == GetOrCreateSession(db, sid_arg)
      session  == MongoGetSession(resolved.db, resolved.session_id)
      route    == RouteOf(resolved.db, session, user_input)
      slot     == route \in SlotNames
  IN  Trace("process_user_query", user_input, resolved.session_id,
            Len(session.conversation_context), route,
            ~slot /\ HeuristicConsulted(resolved.db, session),
            ~slot /\ route # "new_issue" /\ ShortcutConsulted(session),
            route = "intent",
            IF route = "intent" THEN llm.kind ELSE NULL,
            IF route = "intent"
            THEN ResolveIntent(user_input, session.conversation_context,
                               session.active_incidents # <<>>, llm, bot_echo).intent
            ELSE NULL,
            IF ConsultsKb(resolved.db, session, user_input, llm, bot_echo)
            THEN SearchKb(kb_outcome) ELSE NULL,
            FailedCalls(ConsultsKb(resolved.db, session, user_input, llm, bot_echo),
                        kb_outcome, analysis),
            AnalysisVerdict(ConsultsKb(resolved.db, session, user_input, llm, bot_echo),
                            kb_outcome, analysis))

(***************************************************************************)
(* Admin operations                                                        *)
(***************************************************************************)

ValidStatuses == {"pending_info", "open", "resolved"}

\* update_incident_status: the stores it leaves and the boolean it returns.
\* The stored admin_message is replaced by a freshly phrased default only
\* when it is empty or one of three fixed sentences (which no code path
\* stores); update_incident stamps updated_on, so it reports a modification
\* whenever the incident exists
UpdateIncidentStatus(db, incident_id, status) ==
  IF status \notin ValidStatuses THEN [db |-> db, value |-> FALSE]
  ELSE IF ~HasIncident(db, incident_id) THEN [db |-> db, value |-> FALSE]
  ELSE LET current_admin_message == db.incidents[incident_id].admin_message IN
       LET update_data == IF current_admin_message = ""
                          THEN [status |-> status, admin_message |-> DefaultAdminMessage(status)]
                          ELSE [status |-> status]
       IN  [db |-> MongoUpdateIncident(db, incident_id,
                     IF status = "resolved"
                     THEN Stamped(update_data, "resolved_on", db.now)
                     ELSE update_data),
            value |-> TRUE]

\* kb_id.split('_')[1]: the piece between the first '_' and the next one
SecondPiece(kb_id) ==
  LET rest == SubSeq(kb_id, 4, Len(kb_id)) IN
  IF \E i \in 1..Len(rest) : CharAt(rest, i) = "_"
  THEN SubSeq(rest, 1, (CHOOSE k \in 1..Len(rest) :
                          CharAt(rest, k) = "_" /\ \A j \in 1..(k - 1) : CharAt(rest, j) # "_") - 1)
  ELSE rest

\* the number add_new_kb_entry reads from an id of the vector store: ids
\* that do not start with 'KB_' or hold no number count as 0
KbNumber(kb_id) ==
  IF Len(kb_id) >= 3 /\ SubSeq(kb_id, 1, 3) = "KB_" /\ IsNumber(SecondPiece(kb_id))
  THEN ParseInt(SecondPiece(kb_id))
  ELSE 0

MaxKbNumber(kbs) ==
  IF DOMAIN kbs = {} THEN 0
  ELSE CHOOSE n \in {KbNumber(k) : k \in DOMAIN kbs} : \A k \in DOMAIN kbs : KbNumber(k) <= n

\* the question add_new_kb_entry writes for a field when the incident has
\* no questions
GeneratedQuestion(info) ==
  LET info_lower == Lower(info) IN
  IF Contains(info_lower, "operating system") \/ Contains(info_lower, "os")
  THEN "What operating system are you using?"
  ELSE IF Contains(info_lower, "error message") \/ Contains(info_lower, "error code")
  THEN "Are you seeing any error messages? If yes, what does it say?"
  ELSE IF Contains(info_lower, "account type") THEN "What type of account is this?"
  ELSE IF Contains(info_lower, "device") THEN "What is your device name or ID?"
  ELSE MsgGenericQuestion(info)

\* an entry registered under the largest number present
AddNewKbEntryReusesNumber(kbs, use_case, required_info, solution_steps, questions, embedded) ==
  LET new_kb_id == "KB_" \o ToString(MaxKbNumber(kbs))
      metadata  == [use_case       |-> use_case,
                    required_info  |-> JoinComma(required_info),
                    questions      |-> JoinComma(questions),
                    solution_steps |-> solution_steps]
  IN  [kb |-> DictPut(kbs, new_kb_id, metadata), new_kb_id |-> new_kb_id]

\* KBService.add_new_kb_entry: the vector store after it and the id it
\* returns, NULL when the embedding of the use case could not be generated
AddNewKbEntry(kbs, use_case, required_info, solution_steps, questions, embedded) ==
  LET new_kb_id == "KB_" \o ToString(MaxKbNumber(kbs) + 1)
      asked     == IF questions = <<>>
                   THEN [i \in 1..Len(required_info) |-> GeneratedQuestion(required_info[i])]
                   ELSE questions
      metadata  == [use_case       |-> use_case,
                    required_info  |-> JoinComma(required_info),
                    questions      |-> JoinComma(asked),
                    solution_steps |-> solution_steps]
  IN  IF embedded
      THEN [kb |-> DictPut(kbs, new_kb_id, metadata), new_kb_id |-> new_kb_id]
      ELSE [kb |-> kbs, new_kb_id |-> NULL]

\* approve_kb_entry: the stores and the vector store it leaves and the
\* boolean it returns
ApproveKbEntry(db, kbs, incident_id, solution_steps, embedded) ==
  IF ~HasIncident(db, incident_id) THEN [db |-> db, kb |-> kbs, value |-> FALSE]
  ELSE LET incident == db.incidents[incident_id]
           db1 == MongoUpdateIncident(db, incident_id,
                    [solution_steps       |-> solution_steps,
                     needs_kb_approval    |-> FALSE,
                     requires_kb_addition |-> FALSE])
       IN  IF incident.is_new_kb_entry
           THEN \* solution_steps=[solution_steps]: a list of one text, joined again
                LET added == AddNewKbEntry(kbs, incident.user_demand, incident.required_info,
                                           solution_steps, incident.questions, embedded)
                IN  IF added.new_kb_id # NULL
                    THEN [db    |-> MongoUpdateIncident(db1, incident_id,
                                      [kb_id |-> added.new_kb_id, is_new_kb_entry |-> FALSE]),
                          kb    |-> added.kb,
                          value |-> TRUE]
                    ELSE [db |-> db1, kb |-> kbs, value |-> FALSE]
           ELSE [db |-> db1, kb |-> kbs, value |-> TRUE]

(***************************************************************************)
(* The environment's answers a turn consumes                               *)
(***************************************************************************)

\* the replies the intent model can give and whether the last assistant
\* message echoes issue words, enumerated only when detect_intent reads them
ClassifierChoices(db, session, user_input, L) ==
  IF RouteOf(db, session, user_input) # "intent" THEN {<<NoLlmCall, FALSE>>}
  ELSE IF IntentMemo[user_input, session.active_incidents # <<>>].indicator
  THEN IF session.conversation_context = <<>> THEN {<<NoLlmCall, FALSE>>}
       ELSE {<<NoLlmCall, FALSE>>} \cup {<<l, TRUE>> : l \in L}
  ELSE {<<l, FALSE>> : l \in L}

\* the outcome of the KB search and, when it yields no match, the answer of
\* the issue analysis
KbChoices(consulted, K, A) ==
  IF consulted
  THEN {<<k, AnNotTechnical>> : k \in K \cap DOMAIN kb}
         \cup {<<k, a>> : k \in {NULL} \cup (K \cap {KbLookupFailed}), a \in A}
  ELSE {<<NULL, AnNotTechnical>>}

\* the session ids a client can send: none, a known one, an unknown one
SessionArgs == {NULL, "S0"} \cup DOMAIN sessions

(***************************************************************************)
(* Actions                                                                 *)
(***************************************************************************)

\* what a specification explores: the utterances users type, the replies of
\* the intent model, the KB entries a search can match, the answers of the
\* issue analysis, the number of requests served and the number of sessions
Scenario(utterances, replies, kb_matches, analyses, requests, nsessions) ==
  [utterances |-> utterances, replies |-> replies, kb_matches |-> kb_matches,
   analyses |-> analyses, requests |-> requests, sessions |-> nsessions]

Init ==
  /\ sessions = EmptyDict
  /\ incidents = EmptyDict
  /\ kb = KBInit
  /\ clock = 1
  /\ oids = 0
  /\ turns = 0
  /\ result = ReturnedNone
  /\ trace = NoTrace("init")

\* the seconds the clock can show when generate_incident_id reads it: the
\* second of the last reading, or the next one
ClockReadings(read) ==
  IF read /\ clock < MaxClock THEN {clock, clock + 1} ELSE {clock}

\* POST /chat/query: one call of process_user_query
ChatTurn(sc) ==
  /\ turns < sc.requests
  /\ \E user_input \in sc.utterances, sid_arg \in SessionArgs :
       /\ sid_arg \notin DOMAIN sessions => Cardinality(DOMAIN sessions) < sc.sessions
       /\ LET db0      == Db(sessions, incidents, oids, clock)
              resolved == GetOrCreateSession(db0, sid_arg)
              session  == MongoGetSession(resolved.db, resolved.session_id)
          IN  \E c \in ClassifierChoices(resolved.db, session, user_input, sc.replies) :
                \E m \in KbChoices(ConsultsKb(resolved.db, session, user_input, c[1], c[2]),
                                   sc.kb_matches, sc.analyses) :
                  \E now \in ClockReadings(SearchKb(m[1]) # NULL \/ m[2].is_technical_issue) :
                    \E out \in {ProcessUserQuery(Db(sessions, incidents, oids, now),
                                                  user_input, sid_arg, c[1], c[2],
                                                  SearchKb(m[1]), m[2])} :
                        /\ sessions' = out.db.sessions
                        /\ incidents' = out.db.incidents
                        /\ oids' = out.db.oids
                        /\ clock' = now
                        /\ result' = out.result
                        /\ trace' = TurnTrace(db0, user_input, sid_arg, c[1], c[2], m[1], m[2])
  /\ turns' = turns + 1
  /\ UNCHANGED kb

\* PUT /admin/incidents/{id}/status
AdminUpdateStatus(sc) ==
  /\ turns < sc.requests
  /\ turns' = turns + 1
  /\ \E incident_id \in DOMAIN incidents \cup {UInc9}, status \in ValidStatuses \cup {"closed"} :
       \E out \in {UpdateIncidentStatus(Db(sessions, incidents, oids, clock), incident_id, status)} :
       /\ incidents' = out.db.incidents
       /\ result' = [Res(NULL, NULL, incident_id, status) EXCEPT !.value = out.value]
       /\ trace' = NoTrace("update_incident_status")
  /\ UNCHANGED <<sessions, kb, clock, oids>>

\* the solution texts an administrator submits
SolutionTexts == {"Reinstall the mail profile.", "Reboot the device."}

\* POST /admin/incidents/{id}/approve-kb: one call of approve_kb_entry. The
\* result records the request (incident id, solution text in `message`) and
\* the boolean returned; the trace records a failed embedding call
AdminApproveKb(sc) ==
  /\ turns < sc.requests
  /\ turns' = turns + 1
  /\ \E incident_id \in DOMAIN incidents \cup {UInc9}, solution_steps \in SolutionTexts :
       \E embedded \in IF incident_id \in DOMAIN incidents /\ incidents[incident_id].is_new_kb_entry
                        THEN BOOLEAN ELSE {TRUE} :
         \E out \in {ApproveKbEntry(Db(sessions, incidents, oids, clock), kb,
                                     incident_id, solution_steps, embedded)} :
           /\ incidents' = out.db.incidents
           /\ kb' = out.kb
           /\ result' = [Res(solution_steps, NULL, incident_id, NULL) EXCEPT !.value = out.value]
           /\ trace' = [NoTrace("approve_kb_entry") EXCEPT
                          !.failed = IF embedded THEN {} ELSE {"embedding"}]
  /\ UNCHANGED <<sessions, clock, oids>>

\* POST /chat/session/{session_id}/clear: one call of clear_session, which
\* returns True unless the store raises
ClearSessionCall(sc) ==
  /\ turns < sc.requests
  /\ turns' = turns + 1
  /\ \E session_id \in DOMAIN sessions \cup {"S0"} :
       \E db1 \in {ClearSession(Db(sessions, incidents, oids, clock), session_id)} :
         /\ sessions' = db1.sessions
         /\ result' = [Res(NULL, session_id, NULL, NULL) EXCEPT !.value = TRUE]
         /\ trace' = [NoTrace("clear_session") EXCEPT !.session_id = session_id]
  /\ UNCHANGED <<incidents, kb, clock, oids>>

(***************************************************************************)
(* Specifications                                                          *)
(***************************************************************************)

Label(intent) == LlmReply("label", intent, NULL)

\* The general specification: greetings, two problem descriptions, answers
\* to the error-message question, IGNORE and close; the intent model failing,
\* answering {}, answering without a label, with an unknown label, and with
\* the labels the keyword rules never produce
General ==
  Scenario({UHi, UOutlook, UVpn, UNoError, UNothing, UIgnore, UClose},
           {LlmUnparseable, LlmEmptyObject, LlmNoIntent, Label("SMALL_TALK"),
            Label("GREETING_CONTEXT"), Label("UNRELATED_QUERY")},
           {"KB_001", "KB_002"}, {AnNotTechnical, AnDevice}, MaxTurns, MaxSessions)

Next ==
  \/ ChatTurn(General)
  \/ AdminUpdateStatus(General)

Spec == Init /\ [][Next]_vars

\* Field collection in depth: a description, answers to the two questions of
\* KB_001 and to the one of KB_002, close, the keyword rules deciding the
\* intent; analyses that propose no field, or the same field twice
Collect ==
  Scenario({UOutlook, UWindows, UNoError, UClose}, {LlmUnparseable},
           {"KB_001", "KB_002"}, {AnNotTechnical, AnNoFields, AnRepeated},
           CollectTurns, MaxSessions)

NextCollect ==
  \/ ChatTurn(Collect)
  \/ AdminUpdateStatus(Collect)

SpecCollect == Init /\ [][NextCollect]_vars

\* The four slots: a description and a second one (KEEP/IGNORE prompt), KEEP
\* (selection prompt), the menu labels that ask for a description or for the
\* id of a previous incident, and in each slot an id, a greeting, a close
\* command and a clear command
Slots ==
  Scenario({UOutlook, UVpn, UKeep, UInc1, UHi, UClose, UClear},
           {LlmUnparseable, Label("ASK_INCIDENT_TYPE"), Label("ASK_PREVIOUS_SOLUTION")},
           {"KB_002"}, {AnNotTechnical}, SlotTurns, MaxSessions)

NextSlots ==
  \/ ChatTurn(Slots)
  \/ AdminUpdateStatus(Slots)

SpecSlots == Init /\ [][NextSlots]_vars

\* A long conversation: greetings, the menu label that asks for a
\* description and the description that answers it
LongTalk ==
  Scenario({UHi, UVpn}, {Label("GREETING"), Label("ASK_INCIDENT_TYPE")},
           {"KB_002"}, {AnNotTechnical}, ContextTurns, MaxSessions)

NextContext ==
  \/ ChatTurn(LongTalk)
  \/ AdminUpdateStatus(LongTalk)

SpecContext == Init /\ [][NextContext]_vars

\* Clearing: a description, a second one (KEEP/IGNORE prompt), KEEP, the
\* clear command typed in the chat, and the clear endpoint called at any
\* point of the conversation
Clearing ==
  Scenario({UOutlook, UVpn, UKeep, UClear}, {LlmUnparseable},
           {"KB_002"}, {AnNotTechnical}, ClearTurns, MaxSessions)

NextClear ==
  \/ ChatTurn(Clearing)
  \/ ClearSessionCall(Clearing)

SpecClear == Init /\ [][NextClear]_vars

\* Failing collaborators: a description, a second one and KEEP or IGNORE,
\* while the KB search fails or finds nothing and the issue analysis fails
\* or proposes a field
Failing ==
  Scenario({UOutlook, UVpn, UKeep, UIgnore}, {LlmUnparseable},
           {"KB_002", KbLookupFailed}, {AnDevice, AnFailed}, FailTurns, MaxSessions)

NextFail ==
  \/ ChatTurn(Failing)
  \/ AdminUpdateStatus(Failing)

SpecFail == Init /\ [][NextFail]_vars

\* Approval: descriptions that match KB_002 or no entry (the analysis then
\* proposes one field, the same field twice without questions, or none),
\* close, and the administrator approving solutions
Approving ==
  Scenario({UOutlook, UClose}, {LlmUnparseable},
           {"KB_002"}, {AnDevice, AnRepeated, AnNoFields}, ApproveTurns, MaxSessions)

NextApprove ==
  \/ ChatTurn(Approving)
  \/ AdminApproveKb(Approving)

SpecApprove == Init /\ [][NextApprove]_vars

\* Two clients: each describes a problem, refers to an incident by its id
\* after asking for a previous incident, answers the question and answers
\* IGNORE; the keyword rules or the menu label decide the intent
Pair ==
  Scenario({UOutlook, UVpn, UInc1, UNoError, UIgnore},
           {LlmUnparseable, Label("ASK_PREVIOUS_SOLUTION")},
           {"KB_002"}, {AnNotTechnical}, PairTurns, PairSessions)

NextPair ==
  \/ ChatTurn(Pair)
  \/ AdminUpdateStatus(Pair)

SpecPair == Init /\ [][NextPair]_vars

\* Resuming one of two incidents: two descriptions, KEEP, the selection of
\* the first incident, and an answer that both KB entries ask for
Resuming ==
  Scenario({UOutlook, UVpn, UKeep, UInc1, UWindows}, {LlmUnparseable},
           {"KB_001", "KB_002"}, {AnNotTechnical}, ResumeTurns, MaxSessions)

NextResume == ChatTurn(Resuming)

SpecResume == Init /\ [][NextResume]_vars

\* Selection across sessions: each of two sessions describes a problem, one
\* of them a second time, answers KEEP and names an incident id
Selecting ==
  Scenario({UOutlook, UKeep, UInc1}, {LlmUnparseable}, {"KB_002"}, {AnNotTechnical},
           SelectTurns, PairSessions)

NextSelect == ChatTurn(Selecting)

SpecSelect == Init /\ [][NextSelect]_vars

\* Looking up an earlier incident: a description, close, clear session, the
\* request for a previous incident (menu label) and the id typed in reply,
\* with the administrator setting statuses in between
Previous ==
  Scenario({UOutlook, UClear, UInc1, UClose}, {LlmUnparseable, Label("ASK_PREVIOUS_SOLUTION")},
           {"KB_002"}, {AnNotTechnical}, PreviousTurns, MaxSessions)

NextPrevious ==
  \/ ChatTurn(Previous)
  \/ AdminUpdateStatus(Previous)

SpecPrevious == Init /\ [][NextPrevious]_vars

\* Two clients and one incident: one describes a problem, the other looks the
\* incident up by its id, a second description is answered IGNORE, close
Orphan ==
  Scenario({UOutlook, UInc1, UIgnore, UClose}, {LlmUnparseable, Label("ASK_PREVIOUS_SOLUTION")},
           {"KB_002"}, {AnNotTechnical}, OrphanTurns, PairSessions)

NextOrphan == ChatTurn(Orphan)

SpecOrphan == Init /\ [][NextOrphan]_vars

\* The menu while a question is open: a description that only the analysis
\* recognises (the question asks for a device name), then a greeting, the
\* values of the menu's buttons, close, clear session, or an answer
Menu ==
  Scenario({UOutlook, UHi, UCreate, UClose, UClear, UNoError}, {LlmUnparseable},
           {"KB_002"}, {AnDevice}, MenuTurns, MaxSessions)

NextMenu == ChatTurn(Menu)

SpecMenu == Init /\ [][NextMenu]_vars

\* A KB entry without required fields: a description for which the analysis
\* proposes no field, the administrator's approval that adds it to the KB, and
\* a second client whose description matches the new entry and who answers
Bare ==
  Scenario({UOutlook, UWindows, UNoError}, {LlmUnparseable},
           {"KB_3"}, {AnNoFields}, BareTurns, PairSessions)

NextBare ==
  \/ ChatTurn(Bare)
  \/ AdminApproveKb(Bare)

SpecBare == Init /\ [][NextBare]_vars

(***************************************************************************)
(* Properties                                                              *)
(***************************************************************************)

\* a step that is one call of process_user_query
ChatStep == turns' = turns + 1 /\ trace'.op = "process_user_query"

\* the incident document stored under id before the step is still the one
\* stored under id after it
SameDocument(id) ==
  id \in DOMAIN incidents /\ id \in DOMAIN incidents' /\ incidents[id].oid = incidents'[id].oid

\* the session the turn of the step ran under, as it was stored before the
\* step (a session the turn created starts as a new session document)
Sid == trace'.session_id

StartedWith == IF Sid \in DOMAIN sessions THEN sessions[Sid] ELSE NewSessionDoc

\* the step is a chat turn in a session without a pending slot whose current
\* (last active) incident is stored and pending_info
CurrentIsPending ==
  /\ ChatStep
  /\ StartedWith.awaiting_response = NULL
  /\ StartedWith.active_incidents # <<>>
  /\ StatusOf(Db(sessions, incidents, oids, clock), LastOf(StartedWith.active_incidents))
       = "pending_info"

\* required_info without the keys of collected_info, order kept
RequiredMinusCollected(incident) ==
  SelectSeq(incident.required_info, LAMBDA f : f \notin DOMAIN incident.collected_info)

TerminalOrOpen == {"open", "resolved", "closed"}

CollectedPrefix(incident) ==
  \E k \in 0..Len(incident.required_info) :
    /\ incident.missing_info = SubSeq(incident.required_info, k + 1, Len(incident.required_info))
    /\ DOMAIN incident.collected_info = {incident.required_info[j] : j \in 1..k}

RECURSIVE CompletionCount(_, _)
CompletionCount(conv, id) ==
  IF conv = <<>> THEN 0
  ELSE (IF Head(conv) = Msg("assistant", MsgCompletion(id)) THEN 1 ELSE 0)
         + CompletionCount(Tail(conv), id)

\* C10 as stated: a chat turn that accepts the last missing field of a
\* pending_info incident sets it to open with missing_info empty and returns
\* the completion message with status open; and no chat turn on an incident
\* that was finalized before re-runs finalization or returns its completion
\* message again.
C10_AsStated ==
  [][\A id \in DOMAIN incidents :
       (ChatStep /\ SameDocument(id)) =>
         /\ (/\ incidents[id].status = "pending_info"
             /\ Len(incidents[id].missing_info) = 1
             /\ incidents'[id].missing_info = <<>>)
              => /\ incidents'[id].status = "open"
                 /\ result'.incident_id = id
                 /\ result'.status = "open"
                 /\ result'.message = MsgCompletion(id)
         /\ incidents[id].completed
              => /\ result'.message # MsgCompletion(id)
                 /\ CompletionCount(incidents'[id].conversation_history, id)
                      <= CompletionCount(incidents[id].conversation_history, id)]_vars

\* C10 witness of the divergence: the transcript of one incident document
\* holds its completion message twice
C10_FinalizedTwice ==
  \E id \in DOMAIN incidents :
    /\ result.message = MsgCompletion(id)
    /\ CompletionCount(incidents[id].conversation_history, id) = 2

\* C3: after every call of process_user_query the caller holds a result
\* record with a message and with the session id the turn resolved, which
\* names a stored session; this includes the error result.
C3_Total ==
  trace.op = "process_user_query" =>
    /\ result.returned
    /\ result.message # NULL
    /\ result.session_id # NULL
    /\ result.session_id = trace.session_id
    /\ trace.session_id \in DOMAIN sessions

\* C3 witness: a handler raised (the unrelated-query handler without an
\* active incident) and the caller got the error result of its session
C3_Witness ==
  /\ trace.op = "process_user_query"
  /\ trace.intent = "UNRELATED_QUERY"
  /\ result.status = "error"
  /\ result.message = ErrorMessage
  /\ result.session_id = trace.session_id

\* C5 as stated: a turn in a session without active incident whose KB search
\* returns a best match creates exactly one incident, stored as pending_info
\* with the matched kb_id, the match's required_info, missing_info equal to
\* it, nothing collected and no approval needed; its id ends
\* active_incidents and the result carries it with status pending_info.
C5_AsStated ==
  [][(ChatStep /\ StartedWith.active_incidents = <<>> /\ trace'.kb_match # NULL) =>
       \E id \in DOMAIN incidents' \ DOMAIN incidents :
         /\ DOMAIN incidents' = DOMAIN incidents \cup {id}
         /\ \A other \in DOMAIN incidents : incidents'[other] = incidents[other]
         /\ incidents'[id].status = "pending_info"
         /\ incidents'[id].kb_id = trace'.kb_match
         /\ incidents'[id].required_info = SplitComma(kb[trace'.kb_match].required_info)
         /\ incidents'[id].missing_info = incidents'[id].required_info
         /\ incidents'[id].collected_info = EmptyDict
         /\ ~incidents'[id].needs_kb_approval
         /\ LastOf(sessions'[Sid].active_incidents) = id
         /\ result'.incident_id = id
         /\ result'.status = "pending_info"]_vars

\* the phrases both the new-issue heuristic and field collection read as
\* "there is no error message"
AbsenceOfErrorPhrases == NegativeErrorResponses \cap NoErrorPhrases

\* C6 as stated: with no pending slot and a pending_info current incident
\* asking for the error message, an absence-of-error phrase is collected:
\* the field holds 'No error message' and missing_info lost its first
\* element.
C6_AsStated ==
  [][(/\ CurrentIsPending
      /\ FirstMissing(incidents[LastOf(StartedWith.active_incidents)]) = FErrorMessage
      /\ trace'.user_input \in AbsenceOfErrorPhrases) =>
       LET id == LastOf(StartedWith.active_incidents) IN
       /\ SameDocument(id)
       /\ FErrorMessage \in DOMAIN incidents'[id].collected_info
       /\ incidents'[id].collected_info[FErrorMessage] = "No error message"
       /\ incidents'[id].missing_info = Tail(incidents[id].missing_info)]_vars

\* C7 as stated: 'hi' in a session with an active incident and no pending
\* slot resolves to GREETING_CONTEXT when the intent model is unavailable
\* and the keyword rules decide; a turn that resolves to a greeting changes
\* no incident record and not the active incidents.
C7_AsStated ==
  [][(/\ ChatStep
      /\ StartedWith.awaiting_response = NULL
      /\ StartedWith.active_incidents # <<>>
      /\ trace'.user_input = UHi) =>
       /\ trace'.reply = "unparseable" => trace'.intent = "GREETING_CONTEXT"
       /\ trace'.intent \in {"GREETING", "GREETING_CONTEXT"} =>
            /\ incidents' = incidents
            /\ sessions'[Sid].active_incidents = StartedWith.active_incidents]_vars

\* C8: with no pending slot and a pending_info current incident, an
\* utterance the new-issue heuristic accepts gets the KEEP/IGNORE prompt:
\* the slot is keep_or_ignore, the utterance is staged, no incident record
\* is created or changed and the active incidents stay.
C8_KeepIgnorePrompt ==
  [][(/\ CurrentIsPending
      /\ LET current_incident == incidents[LastOf(StartedWith.active_incidents)] IN
         IsClearlyNewIssueDescription(trace'.user_input, current_incident.user_demand,
                                      FirstMissing(current_incident))) =>
       /\ sessions'[Sid].awaiting_response = "keep_or_ignore"
       /\ sessions'[Sid].pending_new_incident_query = trace'.user_input
       /\ sessions'[Sid].active_incidents = StartedWith.active_incidents
       /\ incidents' = incidents
       /\ result'.status = "awaiting_decision"
       /\ result'.action_buttons = "keep/ignore"]_vars

\* C8 witness: the new-issue heuristic routed the turn and the prompt is out
C8_Witness ==
  /\ trace.op = "process_user_query"
  /\ trace.route = "new_issue"
  /\ sessions[trace.session_id].awaiting_response = "keep_or_ignore"
  /\ sessions[trace.session_id].pending_new_incident_query = trace.user_input
  /\ result.status = "awaiting_decision"

\* C9 as stated: a reply holding 'ignore' to the KEEP/IGNORE prompt leaves
\* none of the previously active ids active, no previous context entry, no
\* slot and no staged query, and the staged query is the description of the
\* incident created (its own transcript starts with it).
C9_AsStated ==
  [][(/\ ChatStep
      /\ StartedWith.awaiting_response = "keep_or_ignore"
      /\ KeepIgnoreChoice(trace'.user_input) = "ignore") =>
       LET staged == StartedWith.pending_new_incident_query
           after  == sessions'[Sid]
       IN  /\ \A i \in 1..Len(StartedWith.active_incidents) :
                ~InSeq(StartedWith.active_incidents[i], after.active_incidents)
           /\ after.awaiting_response = NULL
           /\ after.pending_new_incident_query = NULL
           /\ Len(after.conversation_context) <= 2
           /\ after.conversation_context # <<>> =>
                after.conversation_context[1] = Msg("user", staged)
           /\ \A i \in 1..Len(after.active_incidents) :
                LET id == after.active_incidents[i] IN
                /\ id \in DOMAIN incidents'
                /\ incidents'[id].user_demand = staged
                /\ Len(incidents'[id].conversation_history) = 2
                /\ incidents'[id].conversation_history[1] = Msg("user", staged)]_vars

\* C4: a turn that starts with a slot pending is handled by the handler of
\* that slot: the new-issue heuristic, the likely-answer shortcut and the
\* intent classifier are not consulted and no intent is dispatched, so the
\* turn closes no incident, and the session's context is emptied by no
\* slot other than keep_or_ignore (whose IGNORE branch empties it).
C4_SlotOverride ==
  [][(ChatStep /\ StartedWith.awaiting_response \in SlotNames) =>
       /\ trace'.route = StartedWith.awaiting_response
       /\ ~trace'.heuristic
       /\ ~trace'.shortcut
       /\ ~trace'.classifier
       /\ trace'.intent = NULL
       /\ \A id \in DOMAIN incidents \cap DOMAIN incidents' :
            incidents'[id].status = "closed" => incidents[id].status = "closed"
       /\ StartedWith.awaiting_response # "keep_or_ignore" =>
            sessions'[Sid].conversation_context # <<>>]_vars

\* C4 witness: 'close incident' typed while the selection prompt is pending
\* went to the selection handler, and the incidents are still active
C4_Witness ==
  /\ trace.op = "process_user_query"
  /\ trace.route = "incident_id_selection"
  /\ trace.user_input = UClose
  /\ result.status = "awaiting_incident_selection"
  /\ Len(sessions[trace.session_id].active_incidents) = 2

\* C2: after every turn every stored conversation_context has at most 10
\* entries, and the context of the turn's session is a suffix of its former
\* entries followed by the entries the turn wrote (one pair, or two pairs
\* in a branch that writes twice): former entries are dropped from the
\* front, and only when the cap is reached.
C2_ContextCapped ==
  [][ChatStep =>
       LET old == StartedWith.conversation_context
           new == sessions'[Sid].conversation_context
       IN  /\ \A s \in DOMAIN sessions' :
                Len(sessions'[s].conversation_context) <= ContextCap
           /\ \E dropped \in 0..Len(old) :
                LET kept == Len(old) - dropped IN
                /\ Len(new) - kept \in {2, 4}
                /\ SubSeq(new, 1, kept) = SubSeq(old, dropped + 1, Len(old))
                /\ new[Len(new) - 1] = Msg("user", trace'.user_input)
                /\ dropped > 0 => Len(new) = ContextCap]_vars

\* C2 witness: a turn that found ten entries stored and wrote twice (the
\* description slot) left ten, the last pair being its own
C2_Witness ==
  /\ trace.op = "process_user_query"
  /\ trace.context_len = ContextCap
  /\ trace.route = "issue_description"
  /\ Len(sessions[trace.session_id].conversation_context) = ContextCap
  /\ sessions[trace.session_id].conversation_context[ContextCap - 1] = Msg("user", trace.user_input)

\* C11 as stated: a turn of one session leaves every incident another
\* session created stored and unchanged, and leaves every other session's
\* record unchanged.
C11_AsStated ==
  [][ChatStep =>
       /\ \A id \in DOMAIN incidents :
            incidents[id].session_id # Sid =>
              id \in DOMAIN incidents' /\ incidents'[id] = incidents[id]
       /\ \A s \in DOMAIN sessions \ {Sid} : sessions'[s] = sessions[s]]_vars

\* C11 witness of the divergence: a session holds, among its active
\* incidents, an incident that another session created
C11_ForeignIncidentActive ==
  /\ trace.op = "process_user_query"
  /\ \E id \in DOMAIN incidents :
       /\ incidents[id].session_id # trace.session_id
       /\ InSeq(id, sessions[trace.session_id].active_incidents)

\* the id generate_incident_id builds at second n, and its order
IdOfSecond(n) == "INC" \o ToString(n)

IdBefore(a, b) ==
  \E m, n \in 0..(MaxClock + 1) : a = IdOfSecond(m) /\ b = IdOfSecond(n) /\ m < n

\* C12 as stated: a turn whose KB search matched creates an incident: one
\* document is inserted, under an id that no incident stored before the
\* turn has and that is greater than the id of every other stored incident.
C12_AsStated ==
  [][(ChatStep /\ trace'.kb_match # NULL) =>
       /\ oids' = oids + 1
       /\ \E id \in DOMAIN incidents' :
            /\ incidents'[id].oid = oids'
            /\ id \notin DOMAIN incidents
            /\ \A other \in DOMAIN incidents' \ {id} : IdBefore(other, id)]_vars

\* C12 witness of the divergence: the KEEP branch searched the KB with a
\* match and offers a selection, and no second incident is stored
C12_CreationLost ==
  /\ trace.op = "process_user_query"
  /\ trace.route = "keep_or_ignore"
  /\ trace.kb_match # NULL
  /\ result.status = "awaiting_incident_selection"
  /\ Cardinality(DOMAIN incidents) = 1
  /\ oids = 1

\* C13: in every reachable state, get_or_create_session returns the id of a
\* stored session for every id a client can send (none, unknown, known): for
\* a known id that id, with both stores as they were; otherwise an id no
\* session had, stored with an empty context, no active incident and no
\* pending slot, every other session and every incident as they were.
C13_GetOrCreate ==
  \A sid_arg \in SessionArgs :
    LET db       == Db(sessions, incidents, oids, clock)
        resolved == GetOrCreateSession(db, sid_arg)
        sid      == resolved.session_id
    IN  /\ sid \in DOMAIN resolved.db.sessions
        /\ resolved.db.incidents = incidents
        /\ sid_arg \in DOMAIN sessions => sid = sid_arg /\ resolved.db = db
        /\ sid_arg \notin DOMAIN sessions =>
             /\ sid \notin DOMAIN sessions
             /\ DOMAIN resolved.db.sessions = DOMAIN sessions \cup {sid}
             /\ \A s \in DOMAIN sessions : resolved.db.sessions[s] = sessions[s]
             /\ resolved.db.sessions[sid].conversation_context = <<>>
             /\ resolved.db.sessions[sid].active_incidents = <<>>
             /\ resolved.db.sessions[sid].awaiting_response = NULL

\* C13 witness: both cases happened: two turns came without a known id and
\* each got a session of its own, and a third turn ran under the id it sent
C13_Witness ==
  /\ trace.op = "process_user_query"
  /\ turns = 3
  /\ Cardinality(DOMAIN sessions) = 2
  /\ result.session_id = trace.session_id
  /\ trace.context_len > 0

\* a step that is one call of the clear endpoint
ClearStep == turns' = turns + 1 /\ trace'.op = "clear_session"

\* C14 as stated: no step removes a session record; after clear_session on
\* a stored session the record is still stored, with an empty context, no
\* active incident, no pending slot and no staged query; after a chat turn
\* that resolved to the clear intent the same holds, the context holding
\* the turn's own exchange only.
C14_AsStated ==
  [][/\ DOMAIN sessions \subseteq DOMAIN sessions'
     /\ (ClearStep /\ Sid \in DOMAIN sessions) =>
          /\ sessions'[Sid].conversation_context = <<>>
          /\ sessions'[Sid].active_incidents = <<>>
          /\ sessions'[Sid].awaiting_response = NULL
          /\ sessions'[Sid].pending_new_incident_query = NULL
     /\ (ChatStep /\ trace'.intent = "CLEAR_SESSION") =>
          /\ Len(sessions'[Sid].conversation_context) = 2
          /\ sessions'[Sid].active_incidents = <<>>
          /\ sessions'[Sid].awaiting_response = NULL
          /\ sessions'[Sid].pending_new_incident_query = NULL]_vars

\* C14 witness of the divergence: clear_session returned true and the
\* session it cleared still stages a query, with no slot pending
C14_StagedQueryLeft ==
  /\ trace.op = "clear_session"
  /\ result.value = TRUE
  /\ trace.session_id \in DOMAIN sessions
  /\ sessions[trace.session_id].awaiting_response = NULL
  /\ sessions[trace.session_id].active_incidents = <<>>
  /\ sessions[trace.session_id].pending_new_incident_query # NULL

\* the intents the two keyword rule sets give an utterance
KeywordIntents(user_input, has_active_incident) ==
  {LlmFallbackIntentDetection(user_input, has_active_incident).intent,
   ServiceFallbackIntentDetection(user_input, has_active_incident).intent}

\* the intent model's reply carries no valid intent label
NoValidLabel(llm_kind, intent) ==
  \/ llm_kind \in {"unparseable", "empty_object", "no_intent"}
  \/ llm_kind = "label" /\ intent \notin IntentLabels

\* C15 as stated: when detect_intent called the intent model and its reply
\* carries no valid intent label, the turn dispatches on an intent the
\* keyword rules give the utterance, and the caller gets a result with a
\* message.
C15_AsStated ==
  [][(ChatStep /\ trace'.classifier /\ NoValidLabel(trace'.reply, trace'.intent)) =>
       /\ trace'.intent \in KeywordIntents(trace'.user_input, StartedWith.active_incidents # <<>>)
       /\ result'.returned
       /\ result'.message # NULL]_vars

\* C15 witness of the divergence: the reply was a JSON object without an
\* intent, the utterance is one the keyword rules read as a greeting, and
\* the turn answered it as a general query
C15_AnsweredAsGeneralQuery ==
  /\ trace.op = "process_user_query"
  /\ trace.reply = "no_intent"
  /\ trace.user_input = UHi
  /\ trace.intent = "GENERAL_QUERY"
  /\ result.message = MsgGeneral

\* C16 as stated: a turn in which the KB search or the issue analysis of
\* incident creation failed returns the error result, inserts no incident
\* document and adds no entry to the session's active incidents.
C16_AsStated ==
  [][(ChatStep /\ trace'.failed # {}) =>
       /\ result'.returned
       /\ result'.status = "error"
       /\ result'.message # NULL
       /\ oids' = oids
       /\ \A i \in 1..Len(sessions'[Sid].active_incidents) :
            InSeq(sessions'[Sid].active_incidents[i], StartedWith.active_incidents)]_vars

\* C16 witness of the divergence: the KB search failed and the turn
\* answered with the first question of an incident it created
C16_CreatedAfterFailedLookup ==
  /\ trace.op = "process_user_query"
  /\ trace.failed = {"kb_lookup"}
  /\ result.status = "pending_info"
  /\ result.incident_id \in DOMAIN incidents
  /\ incidents[result.incident_id].is_new_kb_entry
  /\ InSeq(result.incident_id, sessions[trace.session_id].active_incidents)

\* the turn of the step refers, in one of the three places that read an
\* incident id from the utterance, to an id under which nothing is stored
RefersToUnknownIncident ==
  /\ ChatStep
  /\ TextMemo[trace'.user_input].incident_id # NULL
  /\ TextMemo[trace'.user_input].incident_id \notin DOMAIN incidents
  /\ \/ trace'.route \in {"previous_solution_id", "incident_id_selection"}
     \/ /\ trace'.route = "intent"
        /\ trace'.intent = "PROVIDE_INCIDENT_ID"
        /\ trace'.reply \in {"unparseable", "empty_object"}

\* C17 as stated: a turn that refers to an incident id that does not exist
\* returns a result without incident and with a status tag other than
\* 'error', and leaves every incident record, the session's active
\* incidents and the session's pending slot as they were.
C17_AsStated ==
  [][RefersToUnknownIncident =>
       /\ result'.returned
       /\ result'.status \notin {NULL, "error"}
       /\ result'.incident_id = NULL
       /\ incidents' = incidents
       /\ sessions'[Sid].active_incidents = StartedWith.active_incidents
       /\ sessions'[Sid].awaiting_response = StartedWith.awaiting_response]_vars

\* C17 witness of the divergence: the previous-incident slot answered "not
\* found" and the slot is gone
C17_SlotCleared ==
  /\ trace.op = "process_user_query"
  /\ trace.route = "previous_solution_id"
  /\ result.status = "incident_not_found"
  /\ result.message = MsgNoPrevious(TextMemo[trace.user_input].incident_id)
  /\ sessions[trace.session_id].awaiting_response = NULL

\* a step that is one call of approve_kb_entry, and the incident it names
ApproveStep == turns' = turns + 1 /\ trace'.op = "approve_kb_entry"

Approved == result'.incident_id

ApprovedBefore(incident) ==
  /\ ~incident.is_new_kb_entry
  /\ ~incident.needs_kb_approval
  /\ incident.kb_id \in DOMAIN kb \ DOMAIN KBInit

\* C19 as stated: approve_kb_entry for an incident that was approved before
\* returns false, changes no incident and registers no KB entry.
C19_AsStated ==
  [][(ApproveStep /\ Approved \in DOMAIN incidents /\ ApprovedBefore(incidents[Approved])) =>
       /\ result'.value = FALSE
       /\ incidents' = incidents
       /\ kb' = kb]_vars

\* C19 witness of the divergence: an approval returned true for an
\* incident that is linked to the entry an earlier approval registered, and
\* the incident's solution is no longer the one of that entry
C19_ApprovedAgain ==
  /\ trace.op = "approve_kb_entry"
  /\ result.value = TRUE
  /\ result.incident_id \in DOMAIN incidents
  /\ ApprovedBefore(incidents[result.incident_id])
  /\ incidents[result.incident_id].solution_steps = result.message
  /\ kb[incidents[result.incident_id].kb_id].solution_steps # result.message

\* the incident a close intent targets: the last entry of the session's
\* active incidents at the start of the turn
CloseTarget == LastOf(StartedWith.active_incidents)

\* the turn is dispatched on a close intent and its target is stored
ClosesStored ==
  /\ ChatStep
  /\ trace'.intent = "CLOSE_INCIDENT"
  /\ CloseTarget \in DOMAIN incidents

\* C20 as stated: a close intent whose target incident is already resolved
\* or closed leaves the incident's status and fields unchanged and the turn
\* returns a message, not the error result.
C20_AsStated ==
  [][(ClosesStored /\ incidents[CloseTarget].status \in {"resolved", "closed"}) =>
       /\ incidents'[CloseTarget] = incidents[CloseTarget]
       /\ result'.status # "error"]_vars

\* C20 witness of the divergence: a close turn reported 'closed' for an
\* incident that the administrator had resolved before the turn
C20_ResolvedClosed ==
  /\ trace.op = "process_user_query"
  /\ trace.intent = "CLOSE_INCIDENT"
  /\ result.status = "closed"
  /\ result.incident_id \in DOMAIN incidents
  /\ incidents[result.incident_id].status = "closed"
  /\ "resolved_on" \in DOMAIN incidents[result.incident_id]
  /\ incidents[result.incident_id].closed_on >= incidents[result.incident_id].resolved_on

\* C21 as stated: no chat turn removes an incident record: every record
\* stored before the turn is stored under its id after the turn.
C21_AsStated ==
  [][ChatStep =>
       \A id \in DOMAIN incidents :
         /\ id \in DOMAIN incidents'
         /\ incidents'[id].oid = incidents[id].oid]_vars

\* C21 witness of the divergence: after an IGNORE reply in the keep_or_ignore
\* slot fewer records are stored than were created
C21_RecordDeleted ==
  /\ trace.op = "process_user_query"
  /\ trace.route = "keep_or_ignore"
  /\ trace.user_input = UIgnore
  /\ oids > Cardinality(DOMAIN incidents)

\* a reply in the keep_or_ignore slot that is read as KEEP
KeepStep ==
  /\ ChatStep
  /\ trace'.route = "keep_or_ignore"
  /\ TextMemo[trace'.user_input].keep_ignore = "keep"

\* C22 as stated: a KEEP reply appends exactly one new incident for the staged
\* query to the session's active incidents, leaves the previous incidents
\* unchanged, moves the slot to incident_id_selection and clears the staged
\* query.
C22_AsStated ==
  [][KeepStep =>
       /\ \E id \in DOMAIN incidents' \ DOMAIN incidents :
            /\ sessions'[Sid].active_incidents = Append(StartedWith.active_incidents, id)
            /\ incidents'[id].user_demand = StartedWith.pending_new_incident_query
       /\ \A old \in DOMAIN incidents : old \in DOMAIN incidents' /\ incidents'[old] = incidents[old]
       /\ sessions'[Sid].awaiting_response = "incident_id_selection"
       /\ sessions'[Sid].pending_new_incident_query = NULL]_vars

\* C22 witness of the divergence: the session is in the selection slot after a
\* KEEP reply and holds a single active incident, whose demand is the first
\* description and not the second one that was staged
C22_NothingAdded ==
  /\ trace.op = "process_user_query"
  /\ trace.route = "keep_or_ignore"
  /\ trace.user_input = UKeep
  /\ trace.session_id \in DOMAIN sessions
  /\ sessions[trace.session_id].awaiting_response = "incident_id_selection"
  /\ Len(sessions[trace.session_id].active_incidents) = 1
  /\ result.status = "awaiting_incident_selection"

\* the incident id a reply in the incident_id_selection slot names
Selected == TextMemo[trace'.user_input].incident_id

\* a reply in the incident_id_selection slot that names a stored incident
\* which is in pending_info
SelectsPending ==
  /\ ChatStep
  /\ trace'.route = "incident_id_selection"
  /\ Selected \in DOMAIN incidents
  /\ incidents[Selected].status = "pending_info"

\* C23 as stated: selecting an incident that is in pending_info clears the
\* slot and re-asks its outstanding question without recording an answer:
\* collected_info and missing_info of the incident are unchanged.
C23_AsStated ==
  [][SelectsPending =>
       /\ sessions'[Sid].awaiting_response = NULL
       /\ Selected \in DOMAIN incidents'
       /\ incidents'[Selected].collected_info = incidents[Selected].collected_info
       /\ incidents'[Selected].missing_info = incidents[Selected].missing_info]_vars

\* C23 witness of the divergence: after a selection turn the selected
\* incident holds the word 'continue' as the answer to one of its fields
C23_ContinueRecorded ==
  /\ trace.op = "process_user_query"
  /\ trace.route = "incident_id_selection"
  /\ result.incident_id \in DOMAIN incidents
  /\ result.incident_id = TextMemo[trace.user_input].incident_id
  /\ \E f \in DOMAIN incidents[result.incident_id].collected_info :
       incidents[result.incident_id].collected_info[f] = DummyContinue

\* the last turn selected incident X in the incident_id_selection slot and
\* X is in pending_info, with a further incident active in the session
JustSelected(X) ==
  /\ trace.op = "process_user_query"
  /\ trace.route = "incident_id_selection"
  /\ result.incident_id = X
  /\ X \in DOMAIN incidents
  /\ incidents[X].status = "pending_info"
  /\ Len(sessions[trace.session_id].active_incidents) >= 2

\* C24 as stated: after incident X was selected, the next turn of the session
\* records an accepted answer into X: no other incident's collected_info
\* changes.
C24_AsStated ==
  [][\A X \in DOMAIN incidents :
       (JustSelected(X) /\ ChatStep /\ Sid = trace.session_id) =>
         \A id \in DOMAIN incidents \ {X} :
           id \in DOMAIN incidents' => incidents'[id].collected_info = incidents[id].collected_info]_vars

\* C24 witness of the divergence: the answer that followed the selection of
\* an incident (its transcript ends with the selection's exchange) was
\* recorded into another incident, and the selected one still waits
C24_RecordedElsewhere ==
  /\ trace.op = "process_user_query"
  /\ trace.route = "likely_answer"
  /\ result.incident_id \in DOMAIN incidents
  /\ \E f \in DOMAIN incidents[result.incident_id].collected_info :
       incidents[result.incident_id].collected_info[f] = trace.user_input
  /\ \E X \in DOMAIN incidents \ {result.incident_id} :
       /\ incidents[X].status = "pending_info"
       /\ incidents[X].collected_info = EmptyDict
       /\ Len(incidents[X].conversation_history) >= 2
       /\ incidents[X].conversation_history[Len(incidents[X].conversation_history) - 1]
            = Msg("user", DummyContinue)

\* a reply in the incident_id_selection slot
SelectionStep == ChatStep /\ trace'.route = "incident_id_selection"

\* C25 as stated: in the incident_id_selection slot a reply with no incident
\* id, with an id that is not stored, or with an id that is not one of the
\* session's active incidents re-prompts, keeps the slot and changes no
\* incident.
C25_AsStated ==
  [][(/\ SelectionStep
      /\ \/ Selected = NULL
         \/ Selected \notin DOMAIN incidents
         \/ ~InSeq(Selected, StartedWith.active_incidents)) =>
       /\ sessions'[Sid].awaiting_response = "incident_id_selection"
       /\ result'.status = "awaiting_incident_selection"
       /\ incidents' = incidents]_vars

\* C25 witness of the divergence: a selection turn left the slot and
\* answered for an incident that is not among the session's active incidents
C25_ForeignSelected ==
  /\ trace.op = "process_user_query"
  /\ trace.route = "incident_id_selection"
  /\ result.incident_id \in DOMAIN incidents
  /\ ~InSeq(result.incident_id, sessions[trace.session_id].active_incidents)
  /\ sessions[trace.session_id].awaiting_response = NULL
  /\ incidents[result.incident_id].session_id # trace.session_id

\* a reply in the keep_or_ignore slot that names neither KEEP nor IGNORE
UnclearStep ==
  /\ ChatStep
  /\ trace'.route = "keep_or_ignore"
  /\ TextMemo[trace'.user_input].keep_ignore = NULL

\* C26: a reply in the keep_or_ignore slot that contains neither 'keep' nor
\* 'ignore' re-prompts and leaves the slot, the staged query, the active
\* incidents and every incident record unchanged; as the slot is kept, the
\* same holds for the next such reply.
C26_Reprompt ==
  [][UnclearStep =>
       /\ result'.message = MsgKeepIgnoreClarify
       /\ result'.status = "awaiting_decision"
       /\ StartedWith.awaiting_response = "keep_or_ignore"
       /\ sessions'[Sid].awaiting_response = "keep_or_ignore"
       /\ sessions'[Sid].pending_new_incident_query = StartedWith.pending_new_incident_query
       /\ sessions'[Sid].pending_new_incident_query # NULL
       /\ sessions'[Sid].active_incidents = StartedWith.active_incidents
       /\ incidents' = incidents]_vars

\* C26 witness: two unclear replies in a row were answered with the
\* clarification and the query is still staged
C26_Witness ==
  /\ trace.op = "process_user_query"
  /\ trace.route = "keep_or_ignore"
  /\ TextMemo[trace.user_input].keep_ignore = NULL
  /\ LET s == sessions[trace.session_id] IN
     /\ s.awaiting_response = "keep_or_ignore"
     /\ s.pending_new_incident_query \in {UOutlook, UVpn}
     /\ Len(s.conversation_context) >= 4
     /\ s.conversation_context[Len(s.conversation_context)] = Msg("assistant", MsgKeepIgnoreClarify)
     /\ s.conversation_context[Len(s.conversation_context) - 2] = Msg("assistant", MsgKeepIgnoreClarify)

\* the pending incidents of the session, in the order of active_incidents,
\* as the turn finds them
PendingOf == GetPendingIncidents(Db(sessions, incidents, oids, clock), StartedWith.active_incidents)

\* the turn feeds a text to field collection: the likely-answer shortcut, the
\* CONTINUE_INCIDENT intent with a pending incident, or the selection of a
\* pending incident
FeedsStep ==
  /\ ChatStep
  /\ \/ trace'.route = "likely_answer"
     \/ trace'.route = "intent" /\ trace'.intent = "CONTINUE_INCIDENT" /\ PendingOf # <<>>
     \/ SelectsPending

\* the incident that is fed, and the text it is fed
FedIncident ==
  IF trace'.route = "incident_id_selection" THEN Selected
  ELSE IF PendingOf = <<>> THEN NULL ELSE LastOf(PendingOf).incident_id

FedText == IF trace'.route = "incident_id_selection" THEN DummyContinue ELSE trace'.user_input

\* neither the matcher of the field being asked for nor the short-answer rule
\* accepts the text
Rejected(id, text) ==
  /\ incidents[id].missing_info # <<>>
  /\ ExtractValueMemo[text, incidents[id].missing_info[1]] = NULL

\* C27: a text fed to field collection that no rule accepts leaves the
\* incident in pending_info with missing_info and collected_info unchanged;
\* the result has status pending_info and only the incident's transcript
\* grows, by the text and the follow-up question.
C27_RejectedAnswer ==
  [][(FeedsStep /\ FedIncident \in DOMAIN incidents /\ Rejected(FedIncident, FedText)) =>
       /\ result'.status = "pending_info"
       /\ result'.incident_id = FedIncident
       /\ incidents'[FedIncident].status = "pending_info"
       /\ incidents'[FedIncident].missing_info = incidents[FedIncident].missing_info
       /\ incidents'[FedIncident].collected_info = incidents[FedIncident].collected_info
       /\ incidents' = [incidents EXCEPT ![FedIncident].conversation_history =
                          @ \o <<Msg("user", FedText), Msg("assistant", result'.message)>>]]_vars

\* C27 witness: a typed answer was rejected: the incident's transcript ends
\* with the answer and the follow-up for its first missing field
C27_Witness ==
  /\ trace.op = "process_user_query"
  /\ trace.route \in {"likely_answer", "intent"}
  /\ result.status = "pending_info"
  /\ result.incident_id \in DOMAIN incidents
  /\ LET inc == incidents[result.incident_id]
         h   == inc.conversation_history
     IN  /\ inc.missing_info # <<>>
         /\ Len(h) >= 4
         /\ h[Len(h) - 1] = Msg("user", trace.user_input)
         /\ h[Len(h)] = Msg("assistant", MsgFollowup(inc.missing_info[1], h[Len(h) - 2].content))
         /\ result.message = h[Len(h)].content

\* the text fed to field collection is accepted for the field the incident
\* asks for
Accepted(id, text) ==
  /\ incidents[id].missing_info # <<>>
  /\ ExtractValueMemo[text, incidents[id].missing_info[1]] # NULL

\* C28: fields are collected in required_info order. A chat turn leaves an
\* incident's missing_info as it was or removes exactly its first element;
\* it removes it exactly when the text fed to that incident is accepted, and
\* then stores the accepted value under that field name and changes no other
\* key of collected_info. After every step the collected fields are a prefix
\* of required_info and missing_info is the remaining suffix, and a chat turn
\* moves an incident from pending_info to open only by accepting its last
\* missing field or when nothing was missing.
C28_InOrder ==
  [][\A id \in DOMAIN incidents' :
       /\ CollectedPrefix(incidents'[id])
       /\ (ChatStep /\ SameDocument(id)) =>
            LET before == incidents[id]
                after  == incidents'[id]
                fed    == FeedsStep /\ FedIncident = id /\ Accepted(id, FedText)
            IN  /\ fed => /\ after.missing_info = Tail(before.missing_info)
                          /\ after.collected_info =
                               DictPut(before.collected_info, before.missing_info[1],
                                       ExtractValueMemo[FedText, before.missing_info[1]])
                /\ ~fed => /\ after.missing_info = before.missing_info
                           /\ after.collected_info = before.collected_info
                /\ (before.status = "pending_info" /\ after.status = "open") =>
                     /\ after.missing_info = <<>>
                     /\ Len(before.missing_info) <= 1
                     /\ DOMAIN after.collected_info =
                          {before.required_info[j] : j \in 1..Len(before.required_info)}]_vars

\* C28 witness: the first of two required fields was accepted in this turn;
\* the typed text is stored under it and the second field is what is missing
C28_Witness ==
  /\ trace.op = "process_user_query"
  /\ trace.route \in {"likely_answer", "intent"}
  /\ result.incident_id \in DOMAIN incidents
  /\ result.status = "pending_info"
  /\ LET inc == incidents[result.incident_id] IN
     /\ Len(inc.required_info) = 2
     /\ inc.required_info[1] # inc.required_info[2]
     /\ inc.missing_info = <<inc.required_info[2]>>
     /\ DOMAIN inc.collected_info = {inc.required_info[1]}
     /\ inc.collected_info[inc.required_info[1]] = trace.user_input

\* the turn went through _handle_new_incident and its search of the KB had
\* no best match (the KEEP branch has its own creation code)
NoMatchStep ==
  /\ ChatStep
  /\ trace'.analysis # <<>>
  /\ ~(trace'.route = "keep_or_ignore" /\ TextMemo[trace'.user_input].keep_ignore = "keep")

Proposal == trace'.analysis[1]

\* C29 as stated: without a best match, a technical issue creates exactly one
\* incident with kb_id null, needs_kb_approval and is_new_kb_entry true,
\* status pending_info and missing_info equal to the proposed required_info;
\* an issue that is not technical creates no incident, leaves
\* active_incidents unchanged and the result has no incident_id.
C29_AsStated ==
  [][NoMatchStep =>
       /\ Proposal.is_technical_issue =>
            /\ oids' = oids + 1
            /\ \E id \in DOMAIN incidents' :
                 /\ incidents'[id].oid = oids'
                 /\ result'.incident_id = id
                 /\ incidents'[id].kb_id = NULL
                 /\ incidents'[id].needs_kb_approval
                 /\ incidents'[id].is_new_kb_entry
                 /\ incidents'[id].status = "pending_info"
                 /\ incidents'[id].missing_info = Proposal.required_info
       /\ ~Proposal.is_technical_issue =>
            /\ oids' = oids
            /\ DOMAIN incidents' \subseteq DOMAIN incidents
            /\ \/ sessions'[Sid].active_incidents = StartedWith.active_incidents
               \/ trace'.route = "keep_or_ignore"
            /\ result'.incident_id = NULL]_vars

\* C29 witness of the divergence: a technical issue without a KB match was
\* answered as a new pending incident under an id whose stored record is an
\* earlier incident (another demand, or no longer pending)
C29_NothingCreated ==
  /\ trace.op = "process_user_query"
  /\ trace.analysis # <<>>
  /\ trace.analysis[1].is_technical_issue
  /\ trace.route # "keep_or_ignore"
  /\ result.incident_id \in DOMAIN incidents
  /\ result.status = "pending_info"
  /\ \/ incidents[result.incident_id].user_demand # trace.user_input
     \/ incidents[result.incident_id].status # "pending_info"

\* the chat turn stored a new incident record
CreatesStep == ChatStep /\ oids' = oids + 1

\* the id of the record the step stored
Created == CHOOSE id \in DOMAIN incidents' : incidents'[id].oid = oids'

\* C30 as stated: every chat turn that stores a new incident adds its id to
\* the session's active_incidents and leaves the incident's own
\* conversation_history holding the user's description followed by the first
\* question.
C30_AsStated ==
  [][CreatesStep =>
       /\ \E id \in DOMAIN incidents' : incidents'[id].oid = oids'
       /\ InSeq(Created, sessions'[Sid].active_incidents)
       /\ Len(incidents'[Created].conversation_history) = 2
       /\ incidents'[Created].conversation_history[1] = Msg("user", incidents'[Created].user_demand)
       /\ incidents'[Created].conversation_history[2].role = "assistant"]_vars

\* C30 witness of the divergence: the incident the KEEP branch just stored is
\* active in the session and its transcript is empty
C30_EmptyTranscript ==
  /\ trace.op = "process_user_query"
  /\ trace.route = "keep_or_ignore"
  /\ trace.user_input = UKeep
  /\ \E id \in DOMAIN incidents :
       /\ incidents[id].oid = oids
       /\ InSeq(id, sessions[trace.session_id].active_incidents)
       /\ incidents[id].session_id = trace.session_id
       /\ incidents[id].conversation_history = <<>>

\* a turn that finds the issue_description slot set
DescriptionStep == ChatStep /\ trace'.route = "issue_description"

\* C31: in the issue_description slot the utterance, whatever it is, is the
\* description of a new issue: the classifier and the two heuristics are not
\* consulted and the slot is left in that turn. With active incidents the
\* utterance is staged as pending_new_incident_query behind the KEEP/IGNORE
\* prompt; without, it goes to incident creation, and the incident the turn
\* stores has the utterance as its user_demand.
C31_Description ==
  [][DescriptionStep =>
       /\ ~trace'.classifier /\ ~trace'.heuristic /\ ~trace'.shortcut
       /\ trace'.intent = NULL
       /\ IF StartedWith.active_incidents # <<>>
          THEN /\ sessions'[Sid].awaiting_response = "keep_or_ignore"
               /\ sessions'[Sid].pending_new_incident_query = trace'.user_input
               /\ result'.status = "awaiting_decision"
               /\ incidents' = incidents
          ELSE /\ sessions'[Sid].awaiting_response = NULL
               /\ oids' \in {oids, oids + 1}
               /\ oids' = oids + 1 =>
                    /\ incidents'[Created].user_demand = trace'.user_input
                    /\ result'.incident_id = Created
                    /\ sessions'[Sid].active_incidents = <<Created>>]_vars

\* C31 witness: a greeting typed in the issue_description slot became the
\* demand of the incident the turn created
C31_Witness ==
  /\ trace.op = "process_user_query"
  /\ trace.route = "issue_description"
  /\ trace.user_input = UHi
  /\ result.incident_id \in DOMAIN incidents
  /\ incidents[result.incident_id].user_demand = UHi
  /\ incidents[result.incident_id].oid = oids
  /\ sessions[trace.session_id].awaiting_response = NULL

\* C31 second witness: a command typed in the slot while an incident is
\* active was staged as the new issue
C31_Staged ==
  /\ trace.op = "process_user_query"
  /\ trace.route = "issue_description"
  /\ trace.user_input = UClose
  /\ sessions[trace.session_id].awaiting_response = "keep_or_ignore"
  /\ sessions[trace.session_id].pending_new_incident_query = UClose

\* a turn that finds the previous_solution_id slot set, and the incident id
\* its utterance contains
PreviousStep == ChatStep /\ trace'.route = "previous_solution_id"

Named == TextMemo[trace'.user_input].incident_id

\* C32: in the previous_solution_id slot no incident record is changed and
\* the classifier is not called. A reply without an incident id is answered
\* with the prompt again and the slot stays; a reply naming a stored incident
\* clears the slot and is answered by the stored status: pending_info or open
\* resumes the incident, which joins the active incidents, resolved shows the
\* solution, any other status is reported.
C32_PreviousSolution ==
  [][PreviousStep =>
       /\ incidents' = incidents
       /\ ~trace'.classifier
       /\ IF Named = NULL
          THEN /\ sessions'[Sid].awaiting_response = "previous_solution_id"
               /\ sessions'[Sid].active_incidents = StartedWith.active_incidents
               /\ result'.status = "awaiting_previous_incident_id"
               /\ result'.message = MsgNoValidId
          ELSE Named \in DOMAIN incidents =>
                 /\ sessions'[Sid].awaiting_response = NULL
                 /\ result'.incident_id = Named
                 /\ CASE incidents[Named].status \in {"pending_info", "open"} ->
                           /\ result'.status = "pending_info"
                           /\ sessions'[Sid].active_incidents =
                                IF InSeq(Named, StartedWith.active_incidents)
                                THEN StartedWith.active_incidents
                                ELSE Append(StartedWith.active_incidents, Named)
                      [] incidents[Named].status = "resolved" ->
                           /\ result'.status = "solution_displayed"
                           /\ result'.message = MsgSolution(Named)
                           /\ sessions'[Sid].active_incidents = StartedWith.active_incidents
                      [] OTHER ->
                           /\ result'.status = incidents[Named].status
                           /\ result'.message = MsgInStatus(Named, incidents[Named].status)
                           /\ sessions'[Sid].active_incidents = StartedWith.active_incidents]_vars

\* C32 witness: an incident that had been closed, and so had left the active
\* incidents, and was opened again by the administrator was named in the slot
\* and is active again, still open
C32_Witness ==
  /\ trace.op = "process_user_query"
  /\ trace.route = "previous_solution_id"
  /\ result.incident_id \in DOMAIN incidents
  /\ "closed_on" \in DOMAIN incidents[result.incident_id]
  /\ incidents[result.incident_id].status = "open"
  /\ result.status = "pending_info"
  /\ sessions[trace.session_id].active_incidents = <<result.incident_id>>
  /\ sessions[trace.session_id].awaiting_response = NULL

\* C32 second witness: a resolved incident was named and its solution shown
C32_Solution ==
  /\ trace.op = "process_user_query"
  /\ trace.route = "previous_solution_id"
  /\ result.status = "solution_displayed"
  /\ incidents[result.incident_id].status = "resolved"

\* C32 third witness: a closed incident was named and its status reported
C32_Reported ==
  /\ trace.op = "process_user_query"
  /\ trace.route = "previous_solution_id"
  /\ result.status = "closed"
  /\ incidents[result.incident_id].status = "closed"

\* C32 fourth witness: a reply without an id got the prompt again
C32_Reprompted ==
  /\ trace.op = "process_user_query"
  /\ trace.route = "previous_solution_id"
  /\ result.status = "awaiting_previous_incident_id"
  /\ sessions[trace.session_id].awaiting_response = "previous_solution_id"

\* a turn dispatched on a close intent
CloseStep == ChatStep /\ trace'.intent = "CLOSE_INCIDENT"

\* C33 as stated: a close intent in a session with an active incident sets
\* the status of the last active incident to closed, removes exactly that id
\* from active_incidents and leaves every other incident record unchanged;
\* with no active incident no record and no active incident changes and a
\* message is returned.
C33_AsStated ==
  [][CloseStep =>
       IF StartedWith.active_incidents # <<>>
       THEN /\ CloseTarget \in DOMAIN incidents'
            /\ incidents'[CloseTarget].status = "closed"
            /\ sessions'[Sid].active_incidents = RemoveFirst(StartedWith.active_incidents, CloseTarget)
            /\ ~InSeq(CloseTarget, sessions'[Sid].active_incidents)
            /\ DOMAIN incidents' = DOMAIN incidents
            /\ \A id \in DOMAIN incidents \ {CloseTarget} : incidents'[id] = incidents[id]
       ELSE /\ incidents' = incidents
            /\ sessions'[Sid].active_incidents = <<>>
            /\ result'.message = MsgNothingToClose]_vars

\* C33 witness of the divergence: a close turn answered with the error status
\* and the session's last active incident, of which no record is stored, is
\* still active
C33_DanglingKept ==
  /\ trace.op = "process_user_query"
  /\ trace.intent = "CLOSE_INCIDENT"
  /\ result.status = "error"
  /\ result.message = MsgCloseNotFound
  /\ sessions[trace.session_id].active_incidents # <<>>
  /\ LastOf(sessions[trace.session_id].active_incidents) \notin DOMAIN incidents

\* the status changes the state machine allows
AllowedTransitions ==
  {<<"pending_info", "open">>, <<"open", "resolved">>,
   <<"pending_info", "closed">>, <<"open", "closed">>}

\* C34 as stated: every change of the status of a stored incident, by a chat
\* turn or by update_incident_status, is pending_info to open, open to
\* resolved, or pending_info or open to closed; a resolved or closed incident
\* keeps its status and an open incident does not return to pending_info.
C34_AsStated ==
  [][\A id \in DOMAIN incidents :
       (SameDocument(id) /\ incidents'[id].status # incidents[id].status) =>
          <<incidents[id].status, incidents'[id].status>> \in AllowedTransitions]_vars

\* C34 witness of the divergence: update_incident_status was accepted and the
\* incident it set to open or pending_info carries the stamp of an earlier
\* resolution
C34_Reopened ==
  /\ trace.op = "update_incident_status"
  /\ result.value = TRUE
  /\ result.incident_id \in DOMAIN incidents
  /\ incidents[result.incident_id].status \in {"pending_info", "open"}
  /\ "resolved_on" \in DOMAIN incidents[result.incident_id]

\* a chat turn that starts without a pending slot
LadderStep == ChatStep /\ StartedWith.awaiting_response \notin SlotNames

\* the greetings and commands among the utterances: "hi", the typed commands
\* and the value the menu's "Create New Incident" button sends
GreetingsAndCommands == {UHi, UClose, UClear, UCreate}

\* C35 as stated: without a pending slot the new-issue heuristic decides
\* before the likely-answer shortcut and the shortcut before the classifier,
\* which is called only when neither matched; the shortcut feeds field
\* collection without the classifier, and never consumes a greeting or a
\* command as an answer.
C35_AsStated ==
  [][LadderStep =>
       /\ trace'.route \in {"new_issue", "likely_answer", "intent"}
       /\ trace'.route = "new_issue" => sessions'[Sid].awaiting_response = "keep_or_ignore"
       /\ trace'.route # "new_issue" => ~trace'.heuristic \/ sessions'[Sid].awaiting_response # "keep_or_ignore"
       /\ trace'.classifier <=> trace'.route = "intent"
       /\ trace'.route = "likely_answer" =>
            /\ trace'.intent = NULL
            /\ trace'.user_input \notin GreetingsAndCommands]_vars

\* C35 witness of the divergence: the value of the "Create New Incident"
\* button was taken by the shortcut and stored as the answer to the open
\* question, without the classifier
C35_CommandConsumed ==
  /\ trace.op = "process_user_query"
  /\ trace.route = "likely_answer"
  /\ trace.user_input = UCreate
  /\ ~trace.classifier
  /\ result.incident_id \in DOMAIN incidents
  /\ incidents[result.incident_id].collected_info # <<>>

\* the entries a turn with utterance u and returned message m is to append
Exchange(u, m) == <<Msg("user", u), Msg("assistant", m)>>

\* C36 as stated: a turn that returns a non-error result appends exactly one
\* user entry, the utterance, and one assistant entry, the returned message,
\* to the session's conversation_context: the context after the turn is a
\* suffix of the context before it followed by these two entries.
C36_AsStated ==
  [][(ChatStep /\ result'.status # "error") =>
       LET old == StartedWith.conversation_context
           new == sessions'[Sid].conversation_context
       IN  \E dropped \in 0..Len(old) :
             new = SubSeq(old, dropped + 1, Len(old))
                     \o Exchange(trace'.user_input, result'.message)]_vars

\* C36 witness of the divergence: the turn that took the description of a new
\* issue returned the first question of the incident it created, and the
\* session's context holds two exchanges for that one utterance, the first
\* with a confirmation that was not returned
C36_TwoExchanges ==
  /\ trace.op = "process_user_query"
  /\ trace.route = "issue_description"
  /\ result.status = "pending_info"
  /\ result.message # MsgConfirmCreation
  /\ LET ctx == sessions[trace.session_id].conversation_context IN
       /\ Len(ctx) >= 4
       /\ SubSeq(ctx, Len(ctx) - 3, Len(ctx)) =
            Exchange(trace.user_input, MsgConfirmCreation)
              \o Exchange(trace.user_input, result.message)

\* C37 as stated: a turn in which no collaborator failed never returns the
\* status 'error', whatever the intent and the state of the session.
C37_AsStated ==
  [][(ChatStep /\ trace'.failed = {}) => result'.status # "error"]_vars

\* C37 witness of the divergence: no collaborator failed, the intent was an
\* unrelated query in a session without active incident, the general answer
\* was written to the context and the turn returned the error result
C37_UnrelatedError ==
  /\ trace.op = "process_user_query"
  /\ trace.failed = {}
  /\ trace.intent = "UNRELATED_QUERY"
  /\ sessions[trace.session_id].active_incidents = <<>>
  /\ result.status = "error"
  /\ result.message = ErrorMessage
  /\ LET ctx == sessions[trace.session_id].conversation_context IN
       ctx # <<>> /\ ctx[Len(ctx)] = Msg("assistant", MsgGeneral)

IncidentStatuses == {"pending_info", "open", "resolved", "closed"}

\* C38 as stated: when the result of a turn carries an incident id and one of
\* the incident status values, the status is the one stored for that incident
\* at the end of the turn.
C38_AsStated ==
  [][(ChatStep /\ result'.incident_id # NULL /\ result'.status \in IncidentStatuses) =>
       /\ result'.incident_id \in DOMAIN incidents'
       /\ incidents'[result'.incident_id].status = result'.status]_vars

\* C38 witness of the divergence: an open incident was resumed through the
\* previous_solution_id slot and the result calls it pending_info
C38_OpenReportedPending ==
  /\ trace.op = "process_user_query"
  /\ trace.route = "previous_solution_id"
  /\ result.incident_id \in DOMAIN incidents
  /\ result.status = "pending_info"
  /\ incidents[result.incident_id].status = "open"
  /\ incidents[result.incident_id].missing_info = <<>>

\* C39 as stated: in every stored session a keep_or_ignore slot comes with a
\* staged query and at least one active incident, an incident_id_selection
\* slot with at least one active incident, and a session without a pending
\* slot stages no query.
C39_AsStated ==
  \A s \in DOMAIN sessions :
    /\ sessions[s].awaiting_response = "keep_or_ignore" =>
         /\ sessions[s].pending_new_incident_query \in AllUtterances
         /\ sessions[s].active_incidents # <<>>
    /\ sessions[s].awaiting_response = "incident_id_selection" =>
         sessions[s].active_incidents # <<>>
    /\ sessions[s].awaiting_response = NULL =>
         sessions[s].pending_new_incident_query = NULL

\* C39 witness of the divergence: a chat turn ended in a session that has no
\* pending slot and no active incident and still stages the query of a
\* KEEP/IGNORE prompt that was cleared away
C39_StaleQuery ==
  /\ trace.op = "process_user_query"
  /\ trace.session_id \in DOMAIN sessions
  /\ sessions[trace.session_id].awaiting_response = NULL
  /\ sessions[trace.session_id].pending_new_incident_query \in AllUtterances
  /\ sessions[trace.session_id].pending_new_incident_query # trace.user_input

\* C40 as stated: every pending_info incident that still misses a field has
\* an utterance that field collection accepts for the field it asks for.
C40_AsStated ==
  \A id \in DOMAIN incidents :
    (incidents[id].status = "pending_info" /\ incidents[id].missing_info # <<>>) =>
       \E u \in AllUtterances : ExtractValueMemo[u, incidents[id].missing_info[1]] # NULL

\* C40 witness of the divergence: an incident created from a KB entry without
\* required fields asks for the field '', and the answer typed in the last
\* turn was turned down: the transcript grew, nothing was collected
C40_Stuck ==
  /\ trace.op = "process_user_query"
  /\ result.status = "pending_info"
  /\ result.incident_id \in DOMAIN incidents
  /\ LET inc == incidents[result.incident_id]
         h   == inc.conversation_history
     IN  /\ inc.status = "pending_info"
         /\ inc.missing_info = <<"">>
         /\ inc.collected_info = EmptyDict
         /\ Len(h) >= 4
         /\ h[Len(h) - 1] = Msg("user", trace.user_input)
         /\ result.message = h[Len(h)].content

=============================================================================
